---- MODULE Spec2Model ----
(***************************************************************************)
(* Quiz evaluation, randomisation and cross-lesson gating of the LMS       *)
(* frontend: LessonSidebar, CourseDetailPage, LessonPage and QuizPlayer.   *)
(* The backend API is the environment: it holds the course structure, the  *)
(* completion flags and the attempt history, and answers the requests.     *)
(***************************************************************************)
EXTENDS Integers, Sequences, FiniteSets, TLC

\* ------------------------------------------------------------------ bounds
MaxLessons == 3
MaxModules == 2
MaxOrder == 2

LessonTypes == {"text", "quiz"}
PassMarks == {0, 60}

VARIABLES
    \* backend
    course,            \* modules in storage order, each with its lessons
    done,              \* ids of the lessons the learner has completed
    orphans,           \* requests of LessonPage instances unmounted since
    \* browser
    route,             \* which page is mounted: "none", "courseDetail", "lesson"
    \* LessonSidebar
    progress,          \* useState<CourseProgress | null>: <<>> or <<snapshot>>
    \* CourseDetailPage
    cdCourse,          \* useState<Course | null>: <<>> or <<course>>
    cdLockedLessons,   \* useState<Set<string>>
    cdLoading,
    cdError,
    \* LessonPage
    lessonId,          \* params.lessonId (0 while no lesson route is open)
    lesson,            \* useState<Lesson | null>: <<>> or <<lesson>>
    navData,           \* resolved value of fetchNav: <<>> or <<[prev, next]>>
    lockedSet,         \* resolved value of fetchProgress: <<>> or <<set>>
    prevLesson,        \* 0 for null
    nextLesson,        \* 0 for null
    quizPassed,
    nextLessonLocked,
    completed,         \* useState(false): set by "Mark as Complete"
    completing,        \* POST /progress/complete in flight
    lpLoading,
    lpError,
    sidebarRefreshKey,
    \* requests in flight and values captured by the continuations
    cdProgress,        \* progressData of CourseDetailPage: <<>> or <<snapshot>>
    lpProgress,        \* progress seen by fetchProgress.then: <<>> or <<snapshot>>
    pNav,              \* fetchNav: "idle", "pending", "fulfilled", "rejected"
    pProgress,         \* fetchProgress (never rejected: it has its own catch)
    pAll,              \* Promise.all: "idle", "pending", "settled"
    sbInFlight,        \* progress requests of the sidebar not yet answered
    sbReplies,         \* snapshots answered to the sidebar, on their way back
    \* backend, quiz
    history,           \* attempts of the learner on the quiz: passed flags
    \* QuizPlayer
    props,             \* the props the player is mounted with
    shuffleKey,
    sorted,            \* useMemo: the questions in display order
    optionOrders,      \* useMemo: question id -> display index -> original index
    answers,           \* question id -> original index
    multiAnswers,      \* question id -> array of original indices
    result,            \* useState<QuizResult | null>: <<>> or <<result>>
    submitting,
    error,
    attempts,          \* useState<QuizAttempt[]>
    attemptsExhausted,
    hasPreviouslyPassed,
    attemptsReq,       \* GET /lessons/:id/attempts sent, not yet answered
    attemptsResp,      \* answers to them on their way back
    submits            \* POST /lessons/:id/submit in flight

serverVars == <<course, done, orphans>>
sidebarVars == <<progress, sbInFlight, sbReplies>>
detailVars == <<cdCourse, cdLockedLessons, cdLoading, cdError, cdProgress>>
lessonVars == <<lessonId, lesson, navData, lockedSet, prevLesson, nextLesson,
                quizPassed, nextLessonLocked, completed, completing,
                lpLoading, lpError, sidebarRefreshKey, lpProgress, pNav,
                pProgress, pAll>>
quizVars == <<history, props, shuffleKey, sorted, optionOrders, answers,
              multiAnswers, result, submitting, error, attempts,
              attemptsExhausted, hasPreviouslyPassed, attemptsReq,
              attemptsResp, submits>>
vars == <<serverVars, route, sidebarVars, detailVars, lessonVars, quizVars>>

\* ------------------------------------------------------------ JS helpers
Range(s) == {s[i] : i \in 1..Len(s)}

RECURSIVE Flatten(_)
Flatten(ss) == IF ss = <<>> THEN <<>> ELSE Head(ss) \o Flatten(Tail(ss))

\* Array.prototype.sort((a, b) => a.order - b.order): stable, ascending.
RECURSIVE InsertByOrder(_, _)
InsertByOrder(x, s) ==
    IF s = <<>> THEN <<x>>
    ELSE IF x.order < Head(s).order THEN <<x>> \o s
    ELSE <<Head(s)>> \o InsertByOrder(x, Tail(s))

RECURSIVE SortByOrder(_)
SortByOrder(s) ==
    IF s = <<>> THEN <<>>
    ELSE InsertByOrder(s[Len(s)], SortByOrder(SubSeq(s, 1, Len(s) - 1)))

\* ---------------------------------------------------------------- backend
\* GET /courses/:courseId
CourseResponse == course

\* GET /progress/courses/:courseId
ProgressResponse ==
    [j \in 1..Len(course) |->
        [moduleId |-> course[j].id,
         lessons  |-> [k \in 1..Len(course[j].lessons) |->
            [lessonId           |-> course[j].lessons[k].id,
             lessonType         |-> course[j].lessons[k].type,
             completed          |-> course[j].lessons[k].id \in done,
             passMarkPercentage |-> course[j].lessons[k].passMarkPercentage]]]]

MkCourse(n, m, ty, pm, g, lo, mo) ==
    [j \in 1..m |->
        [id      |-> j,
         order   |-> mo[j],
         lessons |->
            LET ids == SelectSeq([i \in 1..n |-> i], LAMBDA i : g[i] = j)
            IN  [k \in 1..Len(ids) |->
                    [id                 |-> ids[k],
                     type               |-> ty[ids[k]],
                     order              |-> lo[ids[k]],
                     passMarkPercentage |-> pm[ids[k]]]]]]

AllLessons == Flatten([j \in 1..Len(course) |-> course[j].lessons])
LessonIds == {l.id : l \in Range(AllLessons)}

\* ---------------------------------------------------------- LessonSidebar
\* Mutant: the gate test without the lesson type, as the other pages have it.
SidebarIsGateAnyType(l) ==
    /\ l.passMarkPercentage > 0
    /\ ~l.completed

\* The gate test of the sidebar loop.
SidebarIsGate(l) ==
    /\ l.lessonType = "quiz"
    /\ l.passMarkPercentage > 0
    /\ ~l.completed

\* for (const lesson of mod.lessons) { ... }; st = [blocked, locked]
RECURSIVE SidebarScanLessons(_, _)
SidebarScanLessons(lessons, st) ==
    IF lessons = <<>> THEN st
    ELSE LET l == Head(lessons)
             nx == IF st.blocked
                   THEN [st EXCEPT !.locked = @ \cup {l.lessonId}]
                   ELSE IF SidebarIsGate(l)
                        THEN [st EXCEPT !.blocked = TRUE]
                        ELSE st
         IN  SidebarScanLessons(Tail(lessons), nx)

\* for (const mod of progress.modules) { ... }
RECURSIVE SidebarScanModules(_, _)
SidebarScanModules(mods, st) ==
    IF mods = <<>> THEN st
    ELSE SidebarScanModules(Tail(mods),
                            SidebarScanLessons(Head(mods).lessons, st))

SidebarLocked(snapshot) ==
    SidebarScanModules(snapshot, [blocked |-> FALSE, locked |-> {}]).locked

\* const lockedLessons = new Set<string>(); if (progress) { ... }
lockedLessons == IF progress = <<>> THEN {} ELSE SidebarLocked(progress[1])

\* ------------------------------------------------------- CourseDetailPage
DetailIsGate(l) ==
    /\ l.passMarkPercentage > 0
    /\ ~l.completed

RECURSIVE DetailScanLessons(_, _)
DetailScanLessons(lessons, st) ==
    IF lessons = <<>> THEN st
    ELSE LET l == Head(lessons)
             nx == IF st.blocked
                   THEN [st EXCEPT !.locked = @ \cup {l.lessonId}]
                   ELSE IF DetailIsGate(l)
                        THEN [st EXCEPT !.blocked = TRUE]
                        ELSE st
         IN  DetailScanLessons(Tail(lessons), nx)

RECURSIVE DetailScanModules(_, _)
DetailScanModules(mods, st) ==
    IF mods = <<>> THEN st
    ELSE DetailScanModules(Tail(mods),
                           DetailScanLessons(Head(mods).lessons, st))

DetailLocked(snapshot) ==
    DetailScanModules(snapshot, [blocked |-> FALSE, locked |-> {}]).locked

\* The lessons in the order the page renders them:
\* sortedModules.map(mod => sortedLessons.map(...)).
DetailDisplayed(c) ==
    LET sortedModules == SortByOrder(c)
    IN  Flatten([j \in 1..Len(sortedModules) |->
                    SortByOrder(sortedModules[j].lessons)])

\* const isLocked = lockedLessons.has(lesson.id)
DetailIsLocked(id) == id \in cdLockedLessons

\* --------------------------------------------------------------- LessonPage
LessonPageIsGate(l) ==
    /\ l.passMarkPercentage > 0
    /\ ~l.completed

RECURSIVE LessonPageScanLessons(_, _)
LessonPageScanLessons(lessons, st) ==
    IF lessons = <<>> THEN st
    ELSE LET l == Head(lessons)
             nx == IF st.blocked
                   THEN [st EXCEPT !.locked = @ \cup {l.lessonId}]
                   ELSE IF LessonPageIsGate(l)
                        THEN [st EXCEPT !.blocked = TRUE]
                        ELSE st
         IN  LessonPageScanLessons(Tail(lessons), nx)

RECURSIVE LessonPageScanModules(_, _)
LessonPageScanModules(mods, st) ==
    IF mods = <<>> THEN st
    ELSE LessonPageScanModules(Tail(mods),
                               LessonPageScanLessons(Head(mods).lessons, st))

LessonPageLocked(snapshot) ==
    LessonPageScanModules(snapshot, [blocked |-> FALSE, locked |-> {}]).locked

\* if (l.lessonId === lessonId && l.completed) setQuizPassed(true)
MarksCurrentCompleted(snapshot, id) ==
    \E j \in 1..Len(snapshot) : \E k \in 1..Len(snapshot[j].lessons) :
        /\ snapshot[j].lessons[k].lessonId = id
        /\ snapshot[j].lessons[k].completed

\* fetchNav.then: allLessons, idx, prev, next (0 stands for null)
NavOf(c, id) ==
    LET allLessons == DetailDisplayed(c)
        found == {i \in 1..Len(allLessons) : allLessons[i].id = id}
    IN  IF found = {} THEN [prev |-> 0, next |-> 0]
        ELSE LET idx == CHOOSE i \in found : \A k \in found : i <= k
             IN  [prev |-> IF idx > 1 THEN allLessons[idx - 1].id ELSE 0,
                  next |-> IF idx < Len(allLessons)
                           THEN allLessons[idx + 1].id ELSE 0]

LessonResponse(id) == CHOOSE l \in Range(AllLessons) : l.id = id

\* ------------------------------------------------------------ page states
\* State of an unmounted (or freshly mounted) component.
SidebarUnmounted ==
    /\ progress' = <<>>
    /\ sbInFlight' = 0
    /\ sbReplies' = {}

DetailUnmounted ==
    /\ cdCourse' = <<>>
    /\ cdLockedLessons' = {}
    /\ cdLoading' = TRUE
    /\ cdError' = ""
    /\ cdProgress' = <<>>

LessonUnmounted ==
    /\ lessonId' = 0
    /\ lesson' = <<>>
    /\ navData' = <<>>
    /\ lockedSet' = <<>>
    /\ prevLesson' = 0
    /\ nextLesson' = 0
    /\ quizPassed' = FALSE
    /\ nextLessonLocked' = FALSE
    /\ completed' = FALSE
    /\ completing' = FALSE
    /\ lpLoading' = TRUE
    /\ lpError' = ""
    /\ sidebarRefreshKey' = 0
    /\ lpProgress' = <<>>
    /\ pNav' = "idle"
    /\ pProgress' = "idle"
    /\ pAll' = "idle"

\* ------------------------------------------------- CourseDetailPage actions
\* Navigation to /courses/:courseId mounts the page; its effect issues the
\* course and the progress request.
OpenCourseDetail ==
    /\ route # "courseDetail"
    /\ route' = "courseDetail"
    /\ DetailUnmounted
    /\ SidebarUnmounted
    /\ LessonUnmounted
    /\ UNCHANGED <<serverVars, quizVars>>

\* Promise.all([...]).then / .catch / .finally of the page effect.
\* okCourse, okProgress: whether the two requests succeeded.
CourseDetailResolved(okCourse, okProgress) ==
    /\ route = "courseDetail"
    /\ cdLoading
    /\ IF okCourse
       THEN /\ cdCourse' = <<CourseResponse>>
            /\ cdError' = cdError
            /\ IF okProgress
               THEN /\ cdProgress' = <<ProgressResponse>>
                    /\ cdLockedLessons' = DetailLocked(ProgressResponse)
               ELSE /\ cdProgress' = <<>>
                    /\ cdLockedLessons' = cdLockedLessons
       ELSE /\ cdError' = "Failed to load"
            /\ UNCHANGED <<cdCourse, cdProgress, cdLockedLessons>>
    /\ cdLoading' = FALSE
    /\ UNCHANGED <<serverVars, route, sidebarVars, lessonVars, quizVars>>

\* ------------------------------------------------------- LessonPage actions
\* Navigation to /lessons/:lessonId?moduleId=..&courseId=.. mounts LessonPage
\* and LessonSidebar; both effects run and issue their requests.
OpenLesson(id) ==
    /\ route # "lesson"
    /\ id \in LessonIds
    /\ route' = "lesson"
    /\ lessonId' = id
    /\ lesson' = <<>>
    /\ navData' = <<>>
    /\ lockedSet' = <<>>
    /\ lpProgress' = <<>>
    /\ lpLoading' = TRUE
    /\ lpError' = ""
    /\ quizPassed' = FALSE
    /\ prevLesson' = 0
    /\ nextLesson' = 0
    /\ nextLessonLocked' = FALSE
    /\ completed' = FALSE
    /\ completing' = FALSE
    /\ sidebarRefreshKey' = 0
    /\ pNav' = "pending"
    /\ pProgress' = "pending"
    /\ pAll' = "pending"
    /\ progress' = <<>>
    /\ sbInFlight' = 1
    /\ sbReplies' = {}
    /\ DetailUnmounted
    /\ UNCHANGED <<serverVars, quizVars>>

\* fetchNav: the course request settles and .then computes prev and next.
NavSettled(ok) ==
    /\ route = "lesson"
    /\ pNav = "pending"
    /\ IF ok
       THEN /\ pNav' = "fulfilled"
            /\ navData' = <<NavOf(CourseResponse, lessonId)>>
       ELSE /\ pNav' = "rejected"
            /\ navData' = navData
    /\ UNCHANGED <<quizVars, serverVars, route, sidebarVars, detailVars, lessonId,
                   lesson, lockedSet, prevLesson, nextLesson, quizPassed,
                   nextLessonLocked, completed, completing, lpLoading, lpError,
                   sidebarRefreshKey, lpProgress, pProgress, pAll>>

\* fetchProgress: the progress request settles; .then scans the snapshot,
\* .catch yields an empty set.
ProgressSettled(ok) ==
    /\ route = "lesson"
    /\ pProgress = "pending"
    /\ pProgress' = "fulfilled"
    /\ IF ok
       THEN /\ lpProgress' = <<ProgressResponse>>
            /\ lockedSet' = <<LessonPageLocked(ProgressResponse)>>
            /\ quizPassed' = (quizPassed
                               \/ MarksCurrentCompleted(ProgressResponse, lessonId))
       ELSE /\ lpProgress' = <<>>
            /\ lockedSet' = <<{}>>
            /\ quizPassed' = quizPassed
    /\ UNCHANGED <<quizVars, serverVars, route, sidebarVars, detailVars, lessonId,
                   lesson, navData, prevLesson, nextLesson, nextLessonLocked,
                   completed, completing, lpLoading, lpError,
                   sidebarRefreshKey, pNav, pAll>>

\* Promise.all([fetchLesson, fetchNav, fetchProgress]).then(...).finally(...):
\* the lesson request has succeeded and the two other promises are fulfilled.
AllFulfilled ==
    /\ route = "lesson"
    /\ pAll = "pending"
    /\ pNav = "fulfilled" /\ pProgress = "fulfilled"
    /\ pAll' = "settled"
    /\ lesson' = <<LessonResponse(lessonId)>>
    /\ prevLesson' = navData[1].prev
    /\ nextLesson' = navData[1].next
    /\ nextLessonLocked' = (nextLessonLocked
                            \/ (navData[1].next # 0
                                /\ navData[1].next \in lockedSet[1]))
    /\ lpLoading' = FALSE
    /\ UNCHANGED <<quizVars, serverVars, route, sidebarVars, detailVars, lessonId,
                   navData, lockedSet, quizPassed, completed, completing,
                   lpError, sidebarRefreshKey, lpProgress, pNav, pProgress>>

\* Promise.all(...).catch(...).finally(...): the first rejection settles it,
\* that of the lesson request (lessonFailed) or that of fetchNav.
AllRejected(lessonFailed) ==
    /\ route = "lesson"
    /\ pAll = "pending"
    /\ lessonFailed \/ pNav = "rejected"
    /\ pAll' = "settled"
    /\ lpError' = "Failed to load lesson"
    /\ lpLoading' = FALSE
    /\ UNCHANGED <<quizVars, serverVars, route, sidebarVars, detailVars, lessonId,
                   lesson, navData, lockedSet, prevLesson, nextLesson,
                   quizPassed, nextLessonLocked, completed, completing,
                   sidebarRefreshKey, lpProgress, pNav, pProgress>>

\* ---------------------------------------------------- LessonSidebar actions
\* apiFetch<CourseProgress>(...).then(setProgress).catch(() => {})
SidebarSettled(ok) ==
    /\ route = "lesson"
    /\ sbInFlight > 0
    /\ sbInFlight' = sbInFlight - 1
    /\ progress' = IF ok THEN <<ProgressResponse>> ELSE progress
    /\ UNCHANGED <<serverVars, route, sbReplies, detailVars, lessonVars,
                   quizVars>>

\* GET /progress/courses/:courseId of the sidebar is answered with the
\* snapshot of that moment.
ServerAnswersSidebar ==
    /\ route = "lesson"
    /\ sbInFlight > 0
    /\ sbInFlight' = sbInFlight - 1
    /\ sbReplies' = sbReplies \cup {ProgressResponse}
    /\ UNCHANGED <<serverVars, route, progress, detailVars, lessonVars,
                   quizVars>>

\* .then(setProgress): an answer reaches the sidebar, whichever request it
\* answers.
SidebarReplyArrives(snapshot) ==
    /\ route = "lesson"
    /\ snapshot \in sbReplies
    /\ sbReplies' = sbReplies \ {snapshot}
    /\ progress' = <<snapshot>>
    /\ UNCHANGED <<serverVars, route, sbInFlight, detailVars, lessonVars,
                   quizVars>>

\* ------------------------------------------------- what the lesson page shows
\* {!loading && !error && lesson && (...)}
LessonShown == route = "lesson" /\ ~lpLoading /\ lpError = "" /\ lesson # <<>>

PassTheQuizMsg == "Pass the quiz to continue"
CompleteRequiredMsg == "Complete the required quiz to continue"

\* Mutant: the quiz keeps blocking after it has been passed.
quizBlockedDespitePass ==
    /\ lesson[1].type = "quiz"
    /\ lesson[1].passMarkPercentage > 0
    /\ ~completed

\* const quizBlocked = lesson.type === "quiz" && ... && !completed && !quizPassed
quizBlocked ==
    /\ lesson[1].type = "quiz"
    /\ lesson[1].passMarkPercentage > 0
    /\ ~completed
    /\ ~quizPassed

\* const nextBlocked = quizBlocked || nextLessonLocked
nextBlocked == quizBlocked \/ nextLessonLocked

\* The Next control of the nav: absent, a link, or a disabled span with one
\* of the two messages.
NextControl ==
    IF ~LessonShown \/ nextLesson = 0 THEN "none"
    ELSE IF nextBlocked
         THEN (IF quizBlocked THEN PassTheQuizMsg ELSE CompleteRequiredMsg)
         ELSE "link"

\* The "Mark as Complete" button is rendered in the text, video and pdf
\* branches of the page.
MarkCompleteOffered ==
    /\ LessonShown
    /\ lesson[1].type \in {"text", "video", "pdf"}

\* The learner clicks "Mark as Complete": handleMarkComplete up to the await.
handleMarkComplete ==
    /\ MarkCompleteOffered
    /\ ~completing /\ ~completed
    /\ completing' = TRUE
    /\ UNCHANGED <<serverVars, route, sidebarVars, detailVars, lessonId,
                   lesson, navData, lockedSet, prevLesson, nextLesson,
                   quizPassed, nextLessonLocked, completed, lpLoading, lpError,
                   sidebarRefreshKey, lpProgress, pNav, pProgress, pAll,
                   quizVars>>

\* handleMarkComplete after the await: POST /progress/complete has stored the
\* completion, or the request has failed.
MarkCompleteSettled(ok) ==
    /\ route = "lesson"
    /\ completing
    /\ completing' = FALSE
    /\ IF ok
       THEN /\ done' = done \cup {lessonId}
            /\ completed' = TRUE
            /\ sidebarRefreshKey' = sidebarRefreshKey + 1
            /\ sbInFlight' = sbInFlight + 1
            /\ UNCHANGED lpError
       ELSE /\ lpError' = "Failed to mark complete"
            /\ UNCHANGED <<done, completed, sidebarRefreshKey, sbInFlight>>
    /\ UNCHANGED <<course, orphans, route, progress, sbReplies, detailVars,
                   lessonId, lesson, navData, lockedSet, prevLesson,
                   nextLesson, quizPassed, nextLessonLocked, lpLoading,
                   lpProgress, pNav, pProgress, pAll, quizVars>>

\* ------------------------------------------------ navigation between lessons
\* The learner follows a link to another lesson (prev/next or a sidebar
\* entry). The route segment [lessonId] changes, so the App Router unmounts
\* this LessonPage with its sidebar and mounts a new instance, whose state
\* starts from the useState defaults and whose effects issue their requests.
\* The requests of the old instance stay in flight: nothing aborts them.
FollowLessonLink(id) ==
    /\ route = "lesson"
    /\ props = <<>>
    /\ id \in LessonIds
    /\ id # lessonId
    /\ orphans' = orphans
          \cup (IF pProgress = "pending"
                THEN {[kind |-> "progress", lessonId |-> lessonId, settled |-> FALSE]}
                ELSE {})
          \cup (IF pAll = "pending"
                THEN {[kind |-> "all", lessonId |-> lessonId, settled |-> FALSE]}
                ELSE {})
    /\ lessonId' = id
    /\ lesson' = <<>>
    /\ navData' = <<>>
    /\ lockedSet' = <<>>
    /\ lpProgress' = <<>>
    /\ lpLoading' = TRUE
    /\ lpError' = ""
    /\ quizPassed' = FALSE
    /\ prevLesson' = 0
    /\ nextLesson' = 0
    /\ nextLessonLocked' = FALSE
    /\ completed' = FALSE
    /\ completing' = FALSE
    /\ sidebarRefreshKey' = 0
    /\ pNav' = "pending"
    /\ pProgress' = "pending"
    /\ pAll' = "pending"
    /\ progress' = <<>>
    /\ sbInFlight' = 1
    /\ sbReplies' = {}
    /\ UNCHANGED <<course, done, route, detailVars, quizVars>>

\* Mutant: the continuations of the unmounted instance write into the
\* mounted one, as they would if the page instance outlived the navigation.
OrphanSettledIntoView(o) ==
    /\ route = "lesson"
    /\ o \in orphans
    /\ ~o.settled
    /\ orphans' = (orphans \ {o}) \cup {[o EXCEPT !.settled = TRUE]}
    /\ IF o.kind = "progress"
       THEN /\ quizPassed' = (quizPassed
                               \/ MarksCurrentCompleted(ProgressResponse, o.lessonId))
            /\ UNCHANGED <<lesson, prevLesson, nextLesson, nextLessonLocked,
                           lpLoading>>
       ELSE /\ lesson' = <<LessonResponse(o.lessonId)>>
            /\ prevLesson' = NavOf(CourseResponse, o.lessonId).prev
            /\ nextLesson' = NavOf(CourseResponse, o.lessonId).next
            /\ lpLoading' = FALSE
            /\ UNCHANGED <<quizPassed, nextLessonLocked>>
    /\ UNCHANGED <<course, done, route, sidebarVars, detailVars, lessonId,
                   navData, lockedSet, completed, completing, lpError,
                   sidebarRefreshKey, lpProgress, pNav, pProgress, pAll,
                   quizVars>>

\* A request of an unmounted instance settles: its continuations run and
\* call the state setters of that instance, which changes nothing on screen.
OrphanSettled(o) ==
    /\ route = "lesson"
    /\ o \in orphans
    /\ ~o.settled
    /\ orphans' = (orphans \ {o}) \cup {[o EXCEPT !.settled = TRUE]}
    /\ UNCHANGED <<course, done, route, sidebarVars, detailVars, lessonVars,
                   quizVars>>

\* ================================================================ QuizPlayer
MaxHistory == 2        \* attempts the backend stores before the model stops
MaxRetries == 2        \* retries of one mounted player
MaxAnswered == 1       \* attempt lists answered by the backend, not yet delivered

AttemptCaps == {0, 2}
Undefined == 0 - 1     \* answers[q.id] of a question without a selection

\* Two quizzes, their questions in the order the API lists them: one with a
\* multi-select and a single-select question, one with a single question.
TwoQuestions ==
    << [id |-> 1, options |-> <<"a", "b">>, multiSelect |-> TRUE,  order |-> 2],
       [id |-> 2, options |-> <<"c", "d">>, multiSelect |-> FALSE, order |-> 1] >>

OneQuestion ==
    << [id |-> 1, options |-> <<"a", "b">>, multiSelect |-> FALSE, order |-> 1] >>

\* Messages are sequences of words, the empty message the empty sequence.
ValidationMsg == <<"Please", "answer", "all", "questions", "before", "submitting.">>
CeilingPhrase == <<"Maximum", "number", "of", "attempts">>
\* The texts with which the backend refuses a submission over the cap.
CeilingMsg == <<"Maximum", "number", "of", "attempts", "reached">>
AttemptLimitMsg == <<"Maximum", "attempts", "reached">>
RefusalMsgs == {CeilingMsg, AttemptLimitMsg}
NetworkMsg == <<"Request", "failed">>

\* String.prototype.includes: phrase occurs in msg as a contiguous run.
Includes(msg, phrase) ==
    \E i \in 0..(Len(msg) - Len(phrase)) :
        \A k \in 1..Len(phrase) : msg[i + k] = phrase[k]

\* Mutant: the test looks at the first word of the message only.
IncludesFirstWordOfCeilingPhrase(msg) ==
    msg # <<>> /\ msg[1] = CeilingPhrase[1]

\* msg.includes("Maximum number of attempts")
IncludesCeilingPhrase(msg) == Includes(msg, CeilingPhrase)

P == props[1]
\* {!loading && !error && lesson && (... lesson.type === "quiz" && <QuizPlayer/>)}
QuizMounted ==
    /\ route = "lesson"
    /\ props # <<>>
    /\ ~lpLoading /\ lpError = "" /\ lesson # <<>>

\* { ...prev, [key]: value }
Put(map, key, value) ==
    [k \in DOMAIN map \cup {key} |-> IF k = key THEN value ELSE map[k]]

\* ------------------------------------------------------------- the shuffle
\* Mutant: the element at j is copied to i and the one at i is lost.
SwapLosing(arr, i, j) ==
    [k \in 1..Len(arr) |-> IF k = i + 1 THEN arr[j + 1] ELSE arr[k]]

\* [arr[i], arr[j]] = [arr[j], arr[i]] with 0-based i, j
Swap(arr, i, j) ==
    [k \in 1..Len(arr) |->
        IF k = i + 1 THEN arr[j + 1] ELSE IF k = j + 1 THEN arr[i + 1] ELSE arr[k]]

\* Mutant: j drawn from the whole array at every step.
ChoicesOverWholeArray(n) == [1..(n - 1) -> 0..(n - 1)]

\* The values Math.floor(Math.random() * (i + 1)) can take for i = 1..n-1.
Choices(n) == {ch \in [1..(n - 1) -> 0..(n - 1)] : \A i \in 1..(n - 1) : ch[i] <= i}

\* for (let i = arr.length - 1; i > 0; i--) { j = ...; swap(i, j) }
RECURSIVE ShuffleLoop(_, _, _)
ShuffleLoop(arr, i, ch) ==
    IF i <= 0 THEN arr ELSE ShuffleLoop(Swap(arr, i, ch[i]), i - 1, ch)

fisherYates(length, ch) ==
    ShuffleLoop([k \in 1..length |-> k - 1], length - 1, ch)

\* useMemo(() => { ... }, [questions, randomizeQuestions, shuffleKey])
SortedOf(questions, randomizeQuestions, ch) ==
    LET ordered == SortByOrder(questions)
    IN  IF ~randomizeQuestions THEN ordered
        ELSE ShuffleLoop(ordered, Len(ordered) - 1, ch)

\* Mutant: the options are shuffled whatever randomizeAnswers says.
OptionOrdersOfAlways(qs, randomizeAnswers, chs) ==
    [id \in {q.id : q \in Range(qs)} |->
        LET q == CHOOSE x \in Range(qs) : x.id = id
        IN  fisherYates(Len(q.options), chs[id])]

\* useMemo(() => { ... }, [sorted, randomizeAnswers, shuffleKey])
OptionOrdersOf(qs, randomizeAnswers, chs) ==
    IF ~randomizeAnswers THEN <<>>
    ELSE [id \in {q.id : q \in Range(qs)} |->
            LET q == CHOOSE x \in Range(qs) : x.id = id
            IN  fisherYates(Len(q.options), chs[id])]

\* The random choices one render of the two memos can draw.
QuestionChoices(qs) == Choices(Len(qs))
OptionChoices(qs) ==
    {chs \in [{q.id : q \in Range(qs)} ->
                 UNION {Choices(Len(q.options)) : q \in Range(qs)}] :
        \A q \in Range(qs) : chs[q.id] \in Choices(Len(q.options))}

\* Mutant: the button carries its display position instead of the original
\* index of the option it shows.
getDisplayOptionsByPosition(q) ==
    IF q.id \notin DOMAIN optionOrders
    THEN [i \in 1..Len(q.options) |-> [text |-> q.options[i], originalIndex |-> i - 1]]
    ELSE LET order == optionOrders[q.id]
         IN  [i \in 1..Len(order) |->
                [text |-> q.options[order[i] + 1], originalIndex |-> i - 1]]

\* const getDisplayOptions = (q) => ...
getDisplayOptions(q) ==
    IF q.id \notin DOMAIN optionOrders
    THEN [i \in 1..Len(q.options) |-> [text |-> q.options[i], originalIndex |-> i - 1]]
    ELSE LET order == optionOrders[q.id]
         IN  [i \in 1..Len(order) |->
                [text |-> q.options[order[i] + 1], originalIndex |-> order[i]]]

\* ------------------------------------------------------------ what is shown
attemptsUsed == Len(attempts)
\* Mutant: eligibility that forgets the exhaustion flag.
canSubmitDespiteExhaustion == ~hasPreviouslyPassed
canSubmit == ~attemptsExhausted /\ ~hasPreviouslyPassed
\* Mutant: the submit button rendered whatever canSubmit says.
SubmitOfferedToAnyone == QuizMounted /\ result = <<>>
\* {result ? (...) : (canSubmit && <button onClick={handleSubmit} ...>)}
SubmitOffered == QuizMounted /\ result = <<>> /\ canSubmit
\* Mutant: the click on Submit goes through although a result is on display.
SubmitEnabledOverResult == QuizMounted /\ canSubmit /\ ~submitting
SubmitEnabled == SubmitOffered /\ ~submitting
\* disabled={!!result || attemptsExhausted}
OptionsDisabled == result # <<>> \/ attemptsExhausted
\* {attemptsExhausted && !result?.passed && (...)}
ExhaustedBanner == attemptsExhausted /\ ~(result # <<>> /\ result[1].passed)
\* {hasPreviouslyPassed && !result && (...)}
PassedBanner == hasPreviouslyPassed /\ result = <<>>
\* Mutant: retry offered whatever the lockout.
RetryOfferedWhenLocked ==
    /\ QuizMounted
    /\ result # <<>>
    /\ (P.allowRetryAfterPass \/ ~result[1].passed)

\* {!attemptsExhausted && (allowRetryAfterPass || !result.passed) && (...)}
RetryOffered ==
    /\ QuizMounted
    /\ result # <<>>
    /\ ~attemptsExhausted
    /\ (P.allowRetryAfterPass \/ ~result[1].passed)

\* ------------------------------------------------------------- handleSubmit
singleCount == Cardinality(DOMAIN answers)
multiCount == Cardinality({id \in DOMAIN multiAnswers : Len(multiAnswers[id]) > 0})
singleQuestions == Cardinality({i \in 1..Len(sorted) : ~sorted[i].multiSelect})
multiQuestions == Cardinality({i \in 1..Len(sorted) : sorted[i].multiSelect})
\* Mutant: the validation counts the multi-select questions by their entries,
\* emptied ones included.
IncompleteCountingEmptied ==
    \/ singleCount < singleQuestions
    \/ Cardinality(DOMAIN multiAnswers) < multiQuestions
Incomplete == singleCount < singleQuestions \/ multiCount < multiQuestions

\* const submissionAnswers = sorted.map((q) => ...)
submissionAnswers ==
    [i \in 1..Len(sorted) |->
        IF sorted[i].multiSelect
        THEN [questionId |-> sorted[i].id,
              selectedOptionIndices |->
                 IF sorted[i].id \in DOMAIN multiAnswers
                 THEN multiAnswers[sorted[i].id] ELSE <<>>]
        ELSE [questionId |-> sorted[i].id,
              selectedOptionIndex |->
                 IF sorted[i].id \in DOMAIN answers
                 THEN answers[sorted[i].id] ELSE Undefined]]

\* loadAttempts(): the request is sent only with a pass mark or a cap.
LoadAttemptsSends == P.passMarkPercentage > 0 \/ P.maxAttempts > 0

\* --------------------------------------------------------- QuizPlayer actions
\* The learner clicks the option button shown at display position d (0-based)
\* of question q: onClick calls handleMultiToggle or handleSelect with the
\* button's originalIndex.
handleSelect(questionId, originalIndex) ==
    /\ answers' = IF result # <<>> THEN answers
                  ELSE Put(answers, questionId, originalIndex)
    /\ UNCHANGED multiAnswers

handleMultiToggle(questionId, originalIndex) ==
    /\ multiAnswers' =
          IF result # <<>> THEN multiAnswers
          ELSE LET current == IF questionId \in DOMAIN multiAnswers
                              THEN multiAnswers[questionId] ELSE <<>>
                   next == IF originalIndex \in Range(current)
                           THEN SelectSeq(current, LAMBDA i : i # originalIndex)
                           ELSE Append(current, originalIndex)
               IN  Put(multiAnswers, questionId, next)
    /\ UNCHANGED answers

ClickOption(q, d) ==
    /\ QuizMounted
    /\ q \in Range(sorted)
    /\ d \in 0..(Len(q.options) - 1)
    /\ ~OptionsDisabled
    /\ LET oi == getDisplayOptions(q)[d + 1].originalIndex
       IN  IF q.multiSelect THEN handleMultiToggle(q.id, oi)
           ELSE handleSelect(q.id, oi)
    /\ UNCHANGED <<serverVars, route, sidebarVars, detailVars, lessonVars,
                   history, props, shuffleKey, sorted, optionOrders, result,
                   submitting, error, attempts, attemptsExhausted,
                   hasPreviouslyPassed, attemptsReq, attemptsResp, submits>>

\* Mutant: the Submit button stays enabled while a submission is in flight.
handleSubmitWhileSubmitting ==
    /\ SubmitOffered
    /\ \/ Len(history) < MaxHistory
       \/ P.maxAttempts > 0 /\ Len(history) >= P.maxAttempts
    /\ IF Incomplete
       THEN /\ error' = ValidationMsg
            /\ UNCHANGED <<submitting, submits>>
       ELSE /\ error' = <<>>
            /\ submitting' = TRUE
            /\ submits' = submits \cup
                  {[stage |-> "sent", answers |-> submissionAnswers]}
    /\ UNCHANGED <<serverVars, route, sidebarVars, detailVars, lessonVars,
                   history, props, shuffleKey, sorted, optionOrders, answers,
                   multiAnswers, result, attempts, attemptsExhausted,
                   hasPreviouslyPassed, attemptsReq, attemptsResp>>

\* The learner clicks "Submit Answers": handleSubmit up to the await.
handleSubmit ==
    /\ SubmitEnabled
    /\ \/ Len(history) < MaxHistory
       \/ P.maxAttempts > 0 /\ Len(history) >= P.maxAttempts
    /\ IF Incomplete
       THEN /\ error' = ValidationMsg
            /\ UNCHANGED <<submitting, submits>>
       ELSE /\ error' = <<>>
            /\ submitting' = TRUE
            /\ submits' = submits \cup
                  {[stage |-> "sent", answers |-> submissionAnswers]}
    /\ UNCHANGED <<serverVars, route, sidebarVars, detailVars, lessonVars,
                   history, props, shuffleKey, sorted, optionOrders, answers,
                   multiAnswers, result, attempts, attemptsExhausted,
                   hasPreviouslyPassed, attemptsReq, attemptsResp>>

\* onPassed of LessonPage, and the sidebar effect its refreshKey change runs.
onPassed ==
    /\ quizPassed' = TRUE
    /\ nextLessonLocked' = FALSE
    /\ sidebarRefreshKey' = sidebarRefreshKey + 1
    /\ sbInFlight' = sbInFlight + 1

\* Mutant: completion signalled for every scored submission.
SignalsCompletionAlways(data) == TRUE

\* if (data.passed && onPassed) onPassed(); LessonPage always passes onPassed.
SignalsCompletion(data) == data.passed

\* handleSubmit after the await, the request having succeeded with `data`.
SubmitSucceeded(f) ==
    /\ QuizMounted
    /\ f \in submits
    /\ f.stage = "response"
    /\ submits' = submits \ {f}
    /\ result' = <<f.data>>
    /\ IF SignalsCompletion(f.data)
       THEN onPassed
       ELSE UNCHANGED <<quizPassed, nextLessonLocked, sidebarRefreshKey, sbInFlight>>
    /\ attemptsExhausted' =
          (attemptsExhausted
           \/ (f.data.maxAttempts > 0
               /\ f.data.attemptsTaken >= f.data.maxAttempts
               /\ ~f.data.passed))
    /\ attemptsReq' = IF LoadAttemptsSends THEN attemptsReq + 1 ELSE attemptsReq
    /\ submitting' = FALSE
    /\ UNCHANGED <<serverVars, route, progress, sbReplies, detailVars,
                   lessonId, lesson, navData, lockedSet, prevLesson,
                   nextLesson, completed, completing, lpLoading,
                   lpError, lpProgress, pNav, pProgress, pAll,
                   history, props, shuffleKey, sorted, optionOrders, answers,
                   multiAnswers, error, attempts, hasPreviouslyPassed,
                   attemptsResp>>

\* Mutant: the failure handling draws both permutations again.
SubmitThrewReshuffling(f, msg) ==
    /\ submits' = submits \ {f}
    /\ error' = msg
    /\ attemptsExhausted' = (attemptsExhausted \/ IncludesCeilingPhrase(msg))
    /\ submitting' = FALSE
    /\ \E ch \in QuestionChoices(P.questions), chs \in OptionChoices(P.questions) :
          /\ sorted' = SortedOf(P.questions, P.randomizeQuestions, ch)
          /\ optionOrders' = OptionOrdersOf(sorted', P.randomizeAnswers, chs)
    /\ UNCHANGED <<serverVars, route, sidebarVars, detailVars, lessonVars,
                   history, props, shuffleKey, answers, multiAnswers, result,
                   attempts, hasPreviouslyPassed, attemptsReq, attemptsResp>>

\* handleSubmit after the await, the request having thrown with message msg.
SubmitThrew(f, msg) ==
    /\ submits' = submits \ {f}
    /\ error' = msg
    /\ attemptsExhausted' = (attemptsExhausted \/ IncludesCeilingPhrase(msg))
    /\ submitting' = FALSE
    /\ UNCHANGED <<serverVars, route, sidebarVars, detailVars, lessonVars,
                   history, props, shuffleKey, sorted, optionOrders, answers,
                   multiAnswers, result, attempts, hasPreviouslyPassed,
                   attemptsReq, attemptsResp>>

\* The backend refused the submission.
SubmitRejected(f) ==
    /\ QuizMounted
    /\ f \in submits
    /\ f.stage = "refused"
    /\ SubmitThrew(f, f.message)

\* Mutant: the failure handling without its finally block.
SubmitFailedStaysSubmitting(f) ==
    /\ QuizMounted
    /\ f \in submits
    /\ submits' = submits \ {f}
    /\ error' = NetworkMsg
    /\ attemptsExhausted' = (attemptsExhausted \/ IncludesCeilingPhrase(NetworkMsg))
    /\ UNCHANGED <<serverVars, route, sidebarVars, detailVars, lessonVars,
                   history, props, shuffleKey, sorted, optionOrders, answers,
                   multiAnswers, result, submitting, attempts,
                   hasPreviouslyPassed, attemptsReq, attemptsResp>>

\* The request or its answer was lost on the network.
SubmitFailed(f) ==
    /\ QuizMounted
    /\ f \in submits
    /\ SubmitThrew(f, NetworkMsg)

\* Mutant: Retry keeps the ticks of the multi-select questions.
handleRetryKeepingTicks ==
    /\ RetryOffered
    /\ shuffleKey < MaxRetries
    /\ answers' = <<>>
    /\ result' = <<>>
    /\ error' = <<>>
    /\ shuffleKey' = shuffleKey + 1
    /\ \E ch \in QuestionChoices(P.questions), chs \in OptionChoices(P.questions) :
          /\ sorted' = SortedOf(P.questions, P.randomizeQuestions, ch)
          /\ optionOrders' = OptionOrdersOf(sorted', P.randomizeAnswers, chs)
    /\ UNCHANGED <<serverVars, route, sidebarVars, detailVars, lessonVars,
                   history, props, submitting, attempts, attemptsExhausted,
                   hasPreviouslyPassed, attemptsReq, attemptsResp, submits,
                   multiAnswers>>

\* The learner clicks "Retry Quiz"; both memos are recomputed.
handleRetry ==
    /\ RetryOffered
    /\ shuffleKey < MaxRetries
    /\ answers' = <<>>
    /\ multiAnswers' = <<>>
    /\ result' = <<>>
    /\ error' = <<>>
    /\ shuffleKey' = shuffleKey + 1
    /\ \E ch \in QuestionChoices(P.questions), chs \in OptionChoices(P.questions) :
          /\ sorted' = SortedOf(P.questions, P.randomizeQuestions, ch)
          /\ optionOrders' = OptionOrdersOf(sorted', P.randomizeAnswers, chs)
    /\ UNCHANGED <<serverVars, route, sidebarVars, detailVars, lessonVars,
                   history, props, submitting, attempts, attemptsExhausted,
                   hasPreviouslyPassed, attemptsReq, attemptsResp, submits>>

\* Mutant: every fetched history sets the exhaustion flag anew.
AttemptsLoadedRecomputing(data) ==
    /\ QuizMounted
    /\ data \in attemptsResp
    /\ attemptsResp' = attemptsResp \ {data}
    /\ attempts' = data
    /\ attemptsExhausted' =
          (P.maxAttempts > 0 /\ Len(data) >= P.maxAttempts
           /\ ~(\E i \in 1..Len(data) : data[i]))
    /\ hasPreviouslyPassed' =
          IF P.passMarkPercentage > 0 /\ ~P.allowRetryAfterPass
          THEN \E i \in 1..Len(data) : data[i]
          ELSE hasPreviouslyPassed
    /\ UNCHANGED <<serverVars, route, sidebarVars, detailVars, lessonVars,
                   history, props, shuffleKey, sorted, optionOrders, answers,
                   multiAnswers, result, submitting, error, attemptsReq,
                   submits>>

\* loadAttempts().then((data) => ...)
AttemptsLoaded(data) ==
    /\ QuizMounted
    /\ data \in attemptsResp
    /\ attemptsResp' = attemptsResp \ {data}
    /\ attempts' = data
    /\ attemptsExhausted' =
          (attemptsExhausted
           \/ (P.maxAttempts > 0 /\ Len(data) >= P.maxAttempts
               /\ ~(\E i \in 1..Len(data) : data[i])))
    /\ hasPreviouslyPassed' =
          IF P.passMarkPercentage > 0 /\ ~P.allowRetryAfterPass
          THEN \E i \in 1..Len(data) : data[i]
          ELSE hasPreviouslyPassed
    /\ UNCHANGED <<serverVars, route, sidebarVars, detailVars, lessonVars,
                   history, props, shuffleKey, sorted, optionOrders, answers,
                   multiAnswers, result, submitting, error, attemptsReq,
                   submits>>

\* Mutant: a failed history fetch locks the quiz.
AttemptsFailedBlocking ==
    /\ QuizMounted
    /\ \/ /\ attemptsReq > 0
          /\ attemptsReq' = attemptsReq - 1
          /\ UNCHANGED attemptsResp
       \/ /\ \E data \in attemptsResp : attemptsResp' = attemptsResp \ {data}
          /\ UNCHANGED attemptsReq
    /\ attemptsExhausted' = TRUE
    /\ UNCHANGED <<serverVars, route, sidebarVars, detailVars, lessonVars,
                   history, props, shuffleKey, sorted, optionOrders, answers,
                   multiAnswers, result, submitting, error, attempts,
                   hasPreviouslyPassed, submits>>

\* loadAttempts().catch(() => {}): a request or its answer is lost.
AttemptsFailed ==
    /\ QuizMounted
    /\ \/ /\ attemptsReq > 0
          /\ attemptsReq' = attemptsReq - 1
          /\ UNCHANGED attemptsResp
       \/ /\ \E data \in attemptsResp : attemptsResp' = attemptsResp \ {data}
          /\ UNCHANGED attemptsReq
    /\ UNCHANGED <<serverVars, route, sidebarVars, detailVars, lessonVars,
                   history, props, shuffleKey, sorted, optionOrders, answers,
                   multiAnswers, result, submitting, error, attempts,
                   attemptsExhausted, hasPreviouslyPassed, submits>>

\* ------------------------------------------------------ backend, quiz routes
\* GET /lessons/:id/attempts: the answer carries the history at that moment.
ServerListsAttempts ==
    /\ attemptsReq > 0
    /\ Cardinality(attemptsResp) < MaxAnswered
    /\ attemptsReq' = attemptsReq - 1
    /\ attemptsResp' = attemptsResp \cup {history}
    /\ UNCHANGED <<serverVars, route, sidebarVars, detailVars, lessonVars,
                   history, props, shuffleKey, sorted, optionOrders, answers,
                   multiAnswers, result, submitting, error, attempts,
                   attemptsExhausted, hasPreviouslyPassed, submits>>

\* POST /lessons/:id/submit: scored and appended, or refused at the cap. The
\* lesson is completed by a pass, and by any submission without a pass mark.
ServerScores(f) ==
    /\ f \in submits
    /\ f.stage = "sent"
    /\ IF P.maxAttempts > 0 /\ Len(history) >= P.maxAttempts
       THEN /\ \E msg \in RefusalMsgs :
                  submits' = (submits \ {f}) \cup
                     {[stage |-> "refused", answers |-> f.answers,
                       message |-> msg]}
            /\ UNCHANGED <<history, done>>
       ELSE \E passed \in BOOLEAN :
            /\ history' = Append(history, passed)
            /\ done' = IF passed \/ P.passMarkPercentage = 0
                       THEN done \cup {lessonId} ELSE done
            /\ submits' = (submits \ {f}) \cup
                  {[stage |-> "response", answers |-> f.answers,
                    data |-> [passed        |-> passed,
                              maxAttempts   |-> P.maxAttempts,
                              attemptsTaken |-> Len(history) + 1]]}
    /\ UNCHANGED <<course, orphans, route, sidebarVars, detailVars, lessonVars, props,
                   shuffleKey, sorted, optionOrders, answers, multiAnswers,
                   result, submitting, error, attempts, attemptsExhausted,
                   hasPreviouslyPassed, attemptsReq, attemptsResp>>

\* POST /lessons/:lessonId/reset-attempts/:userId, sent from the admin pages.
AdminResetsAttempts ==
    /\ history # <<>>
    /\ history' = <<>>
    /\ UNCHANGED <<serverVars, route, sidebarVars, detailVars, lessonVars,
                   props, shuffleKey, sorted, optionOrders, answers,
                   multiAnswers, result, submitting, error, attempts,
                   attemptsExhausted, hasPreviouslyPassed, attemptsReq,
                   attemptsResp, submits>>

\* ============================================================ specifications
NoPageMounted ==
    /\ route = "none"
    /\ orphans = {}
    /\ progress = <<>> /\ sbInFlight = 0 /\ sbReplies = {}
    /\ completed = FALSE /\ completing = FALSE
    /\ cdCourse = <<>> /\ cdLockedLessons = {} /\ cdLoading = TRUE
    /\ cdError = "" /\ cdProgress = <<>>
    /\ lessonId = 0 /\ lesson = <<>> /\ navData = <<>> /\ lockedSet = <<>>
    /\ prevLesson = 0 /\ nextLesson = 0 /\ quizPassed = FALSE
    /\ nextLessonLocked = FALSE /\ lpLoading = TRUE /\ lpError = ""
    /\ sidebarRefreshKey = 0 /\ lpProgress = <<>>
    /\ pNav = "idle" /\ pProgress = "idle" /\ pAll = "idle"

NoQuizMounted ==
    /\ history = <<>> /\ props = <<>> /\ shuffleKey = 0
    /\ sorted = <<>> /\ optionOrders = <<>>
    /\ answers = <<>> /\ multiAnswers = <<>> /\ result = <<>>
    /\ submitting = FALSE /\ error = <<>> /\ attempts = <<>>
    /\ attemptsExhausted = FALSE /\ hasPreviouslyPassed = FALSE
    /\ attemptsReq = 0 /\ attemptsResp = {} /\ submits = {}

\* Every course of at most MaxLessons lessons in at most MaxModules modules,
\* with every completion state; sortFields tells whether the order fields
\* are free or follow the storage order.
Courses(sortFields) ==
    UNION {
      {MkCourse(n, m, ty, pm, g, lo, mo) :
          ty \in [1..n -> LessonTypes], pm \in [1..n -> PassMarks],
          g \in {x \in [1..n -> 1..m] : \A i \in 1..(n - 1) : x[i] <= x[i + 1]},
          lo \in IF sortFields THEN [1..n -> 1..MaxOrder] ELSE {[i \in 1..n |-> i]},
          mo \in IF sortFields THEN [1..m -> 1..MaxOrder] ELSE {[j \in 1..m |-> j]}} :
      n \in 1..MaxLessons, m \in 1..MaxModules}

\* --- SpecGate: the three gating computations over every progress snapshot
InitGate ==
    /\ course \in Courses(FALSE)
    /\ done \in SUBSET LessonIds
    /\ NoPageMounted
    /\ NoQuizMounted

NextGate ==
    \/ OpenCourseDetail
    \/ \E okCourse \in BOOLEAN, okProgress \in BOOLEAN :
          CourseDetailResolved(okCourse, okProgress)
    \/ \E id \in LessonIds : OpenLesson(id)
    \/ \E ok \in BOOLEAN : NavSettled(ok)
    \/ \E ok \in BOOLEAN : ProgressSettled(ok)
    \/ AllFulfilled
    \/ \E lessonFailed \in BOOLEAN : AllRejected(lessonFailed)
    \/ \E ok \in BOOLEAN : SidebarSettled(ok)

SpecGate == InitGate /\ [][NextGate]_vars

\* --- SpecSidebar: the lesson view's sidebar alone, over the same courses
NextSidebar ==
    \/ \E id \in LessonIds : OpenLesson(id)
    \/ \E ok \in BOOLEAN : SidebarSettled(ok)
    \/ OpenCourseDetail

SpecSidebar == InitGate /\ [][NextSidebar]_vars

\* --- SpecDetail: the course detail page over courses whose order fields
\* are free
InitDetail ==
    /\ course \in Courses(TRUE)
    /\ done \in SUBSET LessonIds
    /\ NoPageMounted
    /\ NoQuizMounted

NextDetail ==
    \/ OpenCourseDetail
    \/ \E okCourse \in BOOLEAN, okProgress \in BOOLEAN :
          CourseDetailResolved(okCourse, okProgress)

SpecDetail == InitDetail /\ [][NextDetail]_vars

\* --- SpecQuiz: one mounted QuizPlayer inside a loaded quiz lesson page
\* The course of the quiz lesson: the quiz (lesson 1) and the lesson after it
\* (lesson 2).
QuizCourse(pm) ==
    << [id |-> 1, order |-> 1, lessons |->
          << [id |-> 1, type |-> "quiz", order |-> 1,
              passMarkPercentage |-> pm],
             [id |-> 2, type |-> "text", order |-> 2,
              passMarkPercentage |-> 0] >>] >>

QuizLessonId == QuizCourse(0)[1].lessons[1].id
FollowingLessonId == QuizCourse(0)[1].lessons[2].id

Histories == UNION {[1..n -> BOOLEAN] : n \in 0..MaxHistory}

\* LessonPage has loaded the quiz lesson (its progress request having
\* succeeded or not) and QuizPlayer has just been mounted with the given
\* props: both memos are computed and the mount effect has called
\* loadAttempts. h is the attempt history the backend holds.
QuizJustMounted(qs, pm, cap, rq, ra, arp, h, okProgress) ==
    /\ course = QuizCourse(pm)
    /\ orphans = {}
    /\ done = IF \E i \in 1..Len(h) : h[i] THEN {QuizLessonId} ELSE {}
    /\ history = h
    /\ route = "lesson"
    /\ progress = <<>> /\ sbInFlight = 1 /\ sbReplies = {}
    /\ completed = FALSE /\ completing = FALSE
    /\ cdCourse = <<>> /\ cdLockedLessons = {} /\ cdLoading = TRUE
    /\ cdError = "" /\ cdProgress = <<>>
    /\ lessonId = QuizLessonId
    /\ lesson = <<LessonResponse(QuizLessonId)>>
    /\ navData = <<NavOf(CourseResponse, QuizLessonId)>>
    /\ lpProgress = IF okProgress THEN <<ProgressResponse>> ELSE <<>>
    /\ lockedSet = IF okProgress THEN <<LessonPageLocked(ProgressResponse)>>
                   ELSE <<{}>>
    /\ quizPassed = (okProgress
                     /\ MarksCurrentCompleted(ProgressResponse, QuizLessonId))
    /\ prevLesson = navData[1].prev
    /\ nextLesson = navData[1].next
    /\ nextLessonLocked = (navData[1].next # 0
                           /\ navData[1].next \in lockedSet[1])
    /\ lpLoading = FALSE /\ lpError = "" /\ sidebarRefreshKey = 0
    /\ pNav = "fulfilled" /\ pProgress = "fulfilled" /\ pAll = "settled"
    /\ props = <<[questions           |-> qs,
                  passMarkPercentage  |-> pm,
                  maxAttempts         |-> cap,
                  randomizeQuestions  |-> rq,
                  randomizeAnswers    |-> ra,
                  allowRetryAfterPass |-> arp]>>
    /\ shuffleKey = 0
    /\ \E ch \in QuestionChoices(qs), chs \in OptionChoices(qs) :
          /\ sorted = SortedOf(qs, rq, ch)
          /\ optionOrders = OptionOrdersOf(sorted, ra, chs)
    /\ answers = <<>> /\ multiAnswers = <<>> /\ result = <<>>
    /\ submitting = FALSE /\ error = <<>> /\ attempts = <<>>
    /\ attemptsExhausted = FALSE /\ hasPreviouslyPassed = FALSE
    /\ attemptsReq = IF pm > 0 \/ cap > 0 THEN 1 ELSE 0
    /\ attemptsResp = {} /\ submits = {}

\* --- SpecQuiz: eligibility, submission and retry of a one-question quiz
\* without randomisation, under every pass mark, cap, retry setting and
\* attempt history
InitQuiz ==
    \E pm \in PassMarks, cap \in AttemptCaps, arp \in BOOLEAN, h \in Histories :
        QuizJustMounted(OneQuestion, pm, cap, FALSE, FALSE, arp, h, TRUE)

NextQuiz ==
    \/ \E q \in Range(sorted) : \E d \in 0..(Len(q.options) - 1) : ClickOption(q, d)
    \/ handleSubmit
    \/ \E f \in submits : SubmitSucceeded(f)
    \/ \E f \in submits : SubmitRejected(f)
    \/ \E f \in submits : SubmitFailed(f)
    \/ handleRetry
    \/ \E data \in attemptsResp : AttemptsLoaded(data)
    \/ AttemptsFailed
    \/ ServerListsAttempts
    \/ \E f \in submits : ServerScores(f)
    \/ AdminResetsAttempts

SpecQuiz == InitQuiz /\ [][NextQuiz]_vars

\* --- SpecAnswers: selections, shuffles and payloads of a quiz with a
\* multi-select and a single-select question, no pass mark and no cap (so
\* the player never asks for the attempt history)
InitAnswers ==
    \E rq \in BOOLEAN, ra \in BOOLEAN :
        QuizJustMounted(TwoQuestions, 0, 0, rq, ra, FALSE, <<>>, TRUE)

NextAnswers ==
    \/ \E q \in Range(sorted) : \E d \in 0..(Len(q.options) - 1) : ClickOption(q, d)
    \/ handleSubmit
    \/ \E f \in submits : SubmitSucceeded(f)
    \/ \E f \in submits : SubmitFailed(f)
    \/ handleRetry
    \/ \E f \in submits : ServerScores(f)

SpecAnswers == InitAnswers /\ [][NextAnswers]_vars

\* --- SpecNav: the learner moves between the two lessons of a course while
\* the requests of the pages left behind are still in flight
InitNav ==
    /\ \E pm \in PassMarks : course = QuizCourse(pm)
    /\ done \in SUBSET {QuizLessonId, FollowingLessonId}
    /\ NoPageMounted
    /\ NoQuizMounted

NextNav ==
    \/ \E id \in LessonIds : OpenLesson(id)
    \/ \E id \in LessonIds : FollowLessonLink(id)
    \/ \E ok \in BOOLEAN : NavSettled(ok)
    \/ \E ok \in BOOLEAN : ProgressSettled(ok)
    \/ AllFulfilled
    \/ \E lessonFailed \in BOOLEAN : AllRejected(lessonFailed)
    \/ \E o \in orphans : OrphanSettled(o)

SpecNav == InitNav /\ [][NextNav]_vars

\* --- SpecRetry: sessions and retries of the two-question quiz with a pass
\* mark, under every attempt history, the history being fetched at any time
InitRetry ==
    \E rq \in BOOLEAN, ra \in BOOLEAN, h \in Histories :
        QuizJustMounted(TwoQuestions, 60, 0, rq, ra, FALSE, h, TRUE)

NextRetry ==
    \/ \E q \in Range(sorted) : \E d \in 0..(Len(q.options) - 1) : ClickOption(q, d)
    \/ handleSubmit
    \/ \E f \in submits : SubmitSucceeded(f)
    \/ \E f \in submits : SubmitFailed(f)
    \/ handleRetry
    \/ \E data \in attemptsResp : AttemptsLoaded(data)
    \/ ServerListsAttempts
    \/ \E f \in submits : ServerScores(f)

SpecRetry == InitRetry /\ [][NextRetry]_vars

\* --- SpecShuffle: the first render of QuizPlayer over quizzes of every
\* size, the two memos drawing every sequence of random numbers
MaxQuestions == 3
MaxOptions == 3
OptionTexts == <<"a", "b", "c", "d", "e">>

\* The quizzes of n questions, question i with oc[i] options; the API lists
\* them in descending order of their order field.
MkQuiz(n, oc) ==
    [i \in 1..n |-> [id          |-> i,
                     options     |-> SubSeq(OptionTexts, 1, oc[i]),
                     multiSelect |-> (i % 2 = 0),
                     order       |-> n + 1 - i]]

Quizzes == UNION {{MkQuiz(n, oc) : oc \in [1..n -> 0..MaxOptions]} :
                    n \in 0..MaxQuestions}

\* LessonPage is about to show the quiz lesson: the two other promises are
\* fulfilled and the lesson response, carrying the quiz configuration the
\* player will be given as props, is arriving.
QuizLessonArriving(qs, rq, ra) ==
    /\ course = QuizCourse(0) /\ done = {} /\ history = <<>>
    /\ orphans = {}
    /\ route = "lesson"
    /\ progress = <<>> /\ sbInFlight = 1 /\ sbReplies = {}
    /\ completed = FALSE /\ completing = FALSE
    /\ cdCourse = <<>> /\ cdLockedLessons = {} /\ cdLoading = TRUE
    /\ cdError = "" /\ cdProgress = <<>>
    /\ lessonId = QuizLessonId
    /\ lesson = <<>>
    /\ navData = <<NavOf(CourseResponse, QuizLessonId)>>
    /\ lpProgress = <<ProgressResponse>>
    /\ lockedSet = <<LessonPageLocked(ProgressResponse)>>
    /\ quizPassed = FALSE /\ prevLesson = 0 /\ nextLesson = 0
    /\ nextLessonLocked = FALSE
    /\ lpLoading = TRUE /\ lpError = "" /\ sidebarRefreshKey = 0
    /\ pNav = "fulfilled" /\ pProgress = "fulfilled" /\ pAll = "pending"
    /\ props = <<[questions           |-> qs,
                  passMarkPercentage  |-> 0,
                  maxAttempts         |-> 0,
                  randomizeQuestions  |-> rq,
                  randomizeAnswers    |-> ra,
                  allowRetryAfterPass |-> FALSE]>>
    /\ shuffleKey = 0 /\ sorted = <<>> /\ optionOrders = <<>>
    /\ answers = <<>> /\ multiAnswers = <<>> /\ result = <<>>
    /\ submitting = FALSE /\ error = <<>> /\ attempts = <<>>
    /\ attemptsExhausted = FALSE /\ hasPreviouslyPassed = FALSE
    /\ attemptsReq = 0 /\ attemptsResp = {} /\ submits = {}

\* Promise.all(...).then(...).finally(...) for a quiz lesson: the page
\* leaves its loading state and renders QuizPlayer for the first time, which
\* computes both memos.
QuizLessonShown ==
    /\ route = "lesson"
    /\ props # <<>>
    /\ lpLoading
    /\ pAll = "pending" /\ pNav = "fulfilled" /\ pProgress = "fulfilled"
    /\ pAll' = "settled"
    /\ lesson' = <<LessonResponse(lessonId)>>
    /\ prevLesson' = navData[1].prev
    /\ nextLesson' = navData[1].next
    /\ nextLessonLocked' = (nextLessonLocked
                            \/ (navData[1].next # 0
                                /\ navData[1].next \in lockedSet[1]))
    /\ lpLoading' = FALSE
    /\ \E ch \in QuestionChoices(P.questions), chs \in OptionChoices(P.questions) :
          /\ sorted' = SortedOf(P.questions, P.randomizeQuestions, ch)
          /\ optionOrders' = OptionOrdersOf(sorted', P.randomizeAnswers, chs)
    /\ attemptsReq' = IF LoadAttemptsSends THEN attemptsReq + 1 ELSE attemptsReq
    /\ UNCHANGED <<serverVars, route, sidebarVars, detailVars, lessonId,
                   navData, lockedSet, quizPassed, completed, completing,
                   lpError, sidebarRefreshKey, lpProgress, pNav, pProgress,
                   history, props, shuffleKey,
                   answers, multiAnswers, result, submitting, error, attempts,
                   attemptsExhausted, hasPreviouslyPassed, attemptsResp,
                   submits>>

InitShuffle ==
    \E qs \in Quizzes, rq \in BOOLEAN, ra \in BOOLEAN :
        QuizLessonArriving(qs, rq, ra)

NextShuffle == QuizLessonShown

SpecShuffle == InitShuffle /\ [][NextShuffle]_vars

\* --- SpecPage: one visit of a lesson page, from the moment it is opened:
\* the three loads, the sidebar and its refreshes, manual completion of a
\* text lesson, the quiz of a quiz lesson
\* The courses of three lessons in one module: lesson 1 of either type, the
\* quiz lesson 2, the text lesson 3; lessons 1 and 2 with or without a pass
\* mark.
PageCourses ==
    {MkCourse(3, 1, ty, pm, [i \in 1..3 |-> 1], [i \in 1..3 |-> i], <<1>>) :
        ty \in {x \in [1..3 -> LessonTypes] : x[2] = "quiz" /\ x[3] = "text"},
        pm \in {x \in [1..3 -> PassMarks] : x[3] = 0}}

\* The attempt histories the backend can hold for a lesson that is, or is
\* not, completed.
HistoriesOf(l, isDone) ==
    IF l.type # "quiz" THEN {<<>>}
    ELSE {h \in Histories :
            isDone <=> \/ \E i \in 1..Len(h) : h[i]
                       \/ l.passMarkPercentage = 0 /\ h # <<>>}

\* The learner has just opened the page of lesson id: LessonPage and the
\* sidebar are mounted, their requests are out. For a quiz lesson props holds
\* the quiz configuration the lesson response will carry.
LessonJustOpened(c, d, id, h) ==
    /\ course = c /\ done = d /\ history = h
    /\ orphans = {}
    /\ route = "lesson"
    /\ progress = <<>> /\ sbInFlight = 1 /\ sbReplies = {}
    /\ completed = FALSE /\ completing = FALSE
    /\ cdCourse = <<>> /\ cdLockedLessons = {} /\ cdLoading = TRUE
    /\ cdError = "" /\ cdProgress = <<>>
    /\ lessonId = id
    /\ lesson = <<>> /\ navData = <<>> /\ lockedSet = <<>>
    /\ lpProgress = <<>>
    /\ quizPassed = FALSE /\ prevLesson = 0 /\ nextLesson = 0
    /\ nextLessonLocked = FALSE
    /\ lpLoading = TRUE /\ lpError = "" /\ sidebarRefreshKey = 0
    /\ pNav = "pending" /\ pProgress = "pending" /\ pAll = "pending"
    /\ props = IF LessonResponse(id).type = "quiz"
               THEN <<[questions           |-> OneQuestion,
                       passMarkPercentage  |-> LessonResponse(id).passMarkPercentage,
                       maxAttempts         |-> 0,
                       randomizeQuestions  |-> FALSE,
                       randomizeAnswers    |-> FALSE,
                       allowRetryAfterPass |-> FALSE]>>
               ELSE <<>>
    /\ shuffleKey = 0 /\ sorted = <<>> /\ optionOrders = <<>>
    /\ answers = <<>> /\ multiAnswers = <<>> /\ result = <<>>
    /\ submitting = FALSE /\ error = <<>> /\ attempts = <<>>
    /\ attemptsExhausted = FALSE /\ hasPreviouslyPassed = FALSE
    /\ attemptsReq = 0 /\ attemptsResp = {} /\ submits = {}

InitPage ==
    \E c \in PageCourses :
        /\ course = c
        /\ \E d \in SUBSET LessonIds, id \in LessonIds :
              \E h \in HistoriesOf(LessonResponse(id), id \in d) :
                  LessonJustOpened(c, d, id, h)

NextPage ==
    \/ \E ok \in BOOLEAN : NavSettled(ok)
    \/ \E ok \in BOOLEAN : ProgressSettled(ok)
    \/ props = <<>> /\ AllFulfilled
    \/ QuizLessonShown
    \/ \E lessonFailed \in BOOLEAN : AllRejected(lessonFailed)
    \/ ServerAnswersSidebar
    \/ \E snapshot \in sbReplies : SidebarReplyArrives(snapshot)
    \/ handleMarkComplete
    \/ \E ok \in BOOLEAN : MarkCompleteSettled(ok)
    \/ \E q \in Range(sorted) : \E d \in 0..(Len(q.options) - 1) : ClickOption(q, d)
    \/ handleSubmit
    \/ \E f \in submits : ServerScores(f)
    \/ \E f \in submits : SubmitSucceeded(f)
    \/ \E f \in submits : SubmitFailed(f)
    \/ handleRetry

SpecPage == InitPage /\ [][NextPage]_vars

\* ==================================================================== claims
\* The lesson records of a snapshot in one sequence, modules in order and
\* lessons in order within each module.
FlatProgress(snapshot) ==
    Flatten([j \in 1..Len(snapshot) |-> snapshot[j].lessons])

IsUnfinishedGatingQuiz(l) ==
    l.lessonType = "quiz" /\ l.passMarkPercentage > 0 /\ ~l.completed

\* The ids of the lessons placed strictly after the first unfinished gating
\* quiz of the snapshot.
AfterFirstGate(snapshot) ==
    LET flat == FlatProgress(snapshot)
    IN  {flat[p].lessonId : p \in {x \in 1..Len(flat) :
            \E q \in 1..(x - 1) : IsUnfinishedGatingQuiz(flat[q])}}

\* C1: whatever snapshot the sidebar holds, a lesson is in its locked set
\* exactly when an unfinished quiz with a pass mark sits strictly before it in
\* the flattened snapshot: the gate itself and the lessons before it are not
\* locked, module boundaries play no part, no gate means an empty set.
C1_SidebarLocksExactlyAfterFirstGate ==
    progress # <<>> =>
        LET flat == FlatProgress(progress[1])
        IN  \A p \in 1..Len(flat) :
                (flat[p].lessonId \in lockedLessons)
                    <=> (\E q \in 1..(p - 1) : IsUnfinishedGatingQuiz(flat[q]))

\* C1 witness: the sidebar holds a snapshot whose gate is the last lesson of
\* the first module, after an ungated lesson; the lesson of the second module
\* is locked, the gate and the lesson before it are not.
C1_Witness ==
    /\ progress # <<>>
    /\ Len(progress[1]) = 2
    /\ Len(progress[1][1].lessons) = 2
    /\ Len(progress[1][2].lessons) = 1
    /\ ~IsUnfinishedGatingQuiz(progress[1][1].lessons[1])
    /\ IsUnfinishedGatingQuiz(progress[1][1].lessons[2])
    /\ lockedLessons = {progress[1][2].lessons[1].lessonId}

\* C4: the locked set of each of the three places is the set of the lessons
\* after the first unfinished quiz with a pass mark of the snapshot it read,
\* so the three agree and a lesson that is not a quiz never blocks.
C4_EveryScanGatesOnQuizzesOnly ==
    /\ progress # <<>> => lockedLessons = AfterFirstGate(progress[1])
    /\ cdProgress # <<>> => cdLockedLessons = AfterFirstGate(cdProgress[1])
    /\ lpProgress # <<>> => lockedSet[1] = AfterFirstGate(lpProgress[1])

\* C5: on the loaded course detail page whose progress request succeeded (and
\* whose pass marks all sit on quizzes), the lessons rendered up to and
\* including the first unfinished gating quiz are not shown locked and every
\* lesson rendered after it is.
C5_DetailLocksFollowDisplayedOrder ==
    (/\ route = "courseDetail" /\ ~cdLoading /\ cdError = ""
     /\ cdCourse # <<>> /\ cdProgress # <<>>
     /\ \A l \in Range(AllLessons) : l.passMarkPercentage > 0 => l.type = "quiz")
    => LET shown == DetailDisplayed(cdCourse[1])
           gates == {p \in 1..Len(shown) :
                        /\ shown[p].type = "quiz"
                        /\ shown[p].passMarkPercentage > 0
                        /\ shown[p].id \notin done}
       IN  gates # {} =>
             \A p \in 1..Len(shown) :
                DetailIsLocked(shown[p].id) <=> (\E g \in gates : g < p)

\* The attempt history the player last fetched.
FetchedSomePass == \E i \in 1..Len(attempts) : attempts[i]
FetchedExhausted ==
    /\ QuizMounted
    /\ P.maxAttempts > 0
    /\ Len(attempts) >= P.maxAttempts
    /\ ~FetchedSomePass

\* C3 as stated: once a fetched history has reached the cap without a pass,
\* the player is locked: no submit button, option buttons disabled, and the
\* contact-administrator message on display.
C3_ExhaustedHistoryLocksAndShowsMessage ==
    FetchedExhausted =>
        /\ attemptsExhausted
        /\ ~SubmitOffered
        /\ OptionsDisabled
        /\ ExhaustedBanner

\* C3 amended: as above, the message being on display unless the result on
\* display is a passed one.
C3_ExhaustedHistoryLocks ==
    FetchedExhausted =>
        /\ attemptsExhausted
        /\ ~SubmitOffered
        /\ ~SubmitEnabled
        /\ OptionsDisabled
        /\ (~(result # <<>> /\ result[1].passed) => ExhaustedBanner)

\* C3 witness: a cap of two, two failed attempts fetched, nothing scored in
\* this session, the message on display.
C3_Witness ==
    /\ FetchedExhausted
    /\ attempts = <<FALSE, FALSE>>
    /\ result = <<>>
    /\ ExhaustedBanner

\* C6: once a fetched history holds a passed attempt, with a pass mark
\* configured and retries after a pass not enabled, the player is
\* PassedLocked: no submit button, and the already-passed banner on display
\* as long as no result is.
C6_PassedHistoryLocks ==
    (QuizMounted /\ P.passMarkPercentage > 0 /\ ~P.allowRetryAfterPass
     /\ FetchedSomePass)
    => /\ hasPreviouslyPassed
       /\ ~SubmitOffered
       /\ ~SubmitEnabled
       /\ (result = <<>> => PassedBanner)

\* C6 witness: a passed attempt fetched, no result yet, banner on display.
C6_Witness ==
    /\ QuizMounted /\ P.passMarkPercentage > 0 /\ ~P.allowRetryAfterPass
    /\ FetchedSomePass
    /\ result = <<>>
    /\ PassedBanner
    /\ ~attemptsExhausted

\* The result on display reports the cap reached without a pass.
ScoredAtCapWithoutPass ==
    /\ QuizMounted
    /\ result # <<>>
    /\ result[1].maxAttempts > 0
    /\ result[1].attemptsTaken >= result[1].maxAttempts
    /\ ~result[1].passed

NoNewSubmission == \A f \in submits' : f.stage = "sent" => f \in submits

\* C7: after a scored response that reports the cap reached without a pass
\* the player is locked: retry and submit are not offered, and for the rest
\* of the session the lock stays and no submission is sent.
C7_ScoredAtCapLocks ==
    /\ [](ScoredAtCapWithoutPass =>
            attemptsExhausted /\ ~RetryOffered /\ ~SubmitOffered)
    /\ [][ScoredAtCapWithoutPass =>
            ScoredAtCapWithoutPass' /\ attemptsExhausted' /\ NoNewSubmission]_vars

\* C7 witness: the second of two allowed attempts was scored as failed.
C7_Witness ==
    /\ ScoredAtCapWithoutPass
    /\ result[1].attemptsTaken = 2
    /\ attemptsExhausted
    /\ shuffleKey = 1

\* The scored responses a step delivers to handleSubmit.
DeliveredInStep ==
    {f \in submits : /\ f.stage = "response"
                     /\ f \notin submits'
                     /\ result = <<>>
                     /\ result' = <<f.data>>}

C10_NoPassMarkAlwaysCompletes ==
    (QuizMounted /\ P.passMarkPercentage = 0 /\ result # <<>>) => quizPassed

\* The original (pre-shuffle) index of the option shown at display position d
\* of question q.
CanonicalAt(q, d) ==
    IF P.randomizeAnswers THEN optionOrders[q.id][d + 1] ELSE d

SelectedOf(map, id) == IF id \in DOMAIN map THEN Range(map[id]) ELSE {}

\* A click on display position d of q records the original index of the
\* option shown there: it becomes the answer of a single-select question, it
\* is toggled in the selection of a multi-select one.
ClickRecordsCanonical(q, d) ==
    LET c == CanonicalAt(q, d)
    IN  /\ q.options[c + 1] = getDisplayOptions(q)[d + 1].text
        /\ IF q.multiSelect
           THEN /\ SelectedOf(multiAnswers', q.id) \in
                     {SelectedOf(multiAnswers, q.id) \cup {c},
                      SelectedOf(multiAnswers, q.id) \ {c}}
                /\ (c \in SelectedOf(multiAnswers', q.id))
                     <=> (c \notin SelectedOf(multiAnswers, q.id))
           ELSE /\ q.id \in DOMAIN answers'
                /\ answers'[q.id] = c

\* The payload f carries one entry per question, keyed by its id, holding the
\* recorded selection of that question.
PayloadIsTheSelections(f) ==
    /\ Len(f.answers) = Len(P.questions)
    /\ \A q \in Range(P.questions) :
          \E i \in 1..Len(f.answers) :
             /\ f.answers[i].questionId = q.id
             /\ \A k \in 1..Len(f.answers) :
                   f.answers[k].questionId = q.id => k = i
             /\ IF q.multiSelect
                THEN /\ q.id \in DOMAIN multiAnswers
                     /\ f.answers[i].selectedOptionIndices = multiAnswers[q.id]
                ELSE /\ q.id \in DOMAIN answers
                     /\ f.answers[i].selectedOptionIndex = answers[q.id]

\* C2: every click records the original index of the option shown at the
\* clicked display position (optionOrders[q][d] under answer randomisation),
\* and every payload sent carries exactly those recorded indices, one entry
\* per question keyed by question id.
C2_SelectionsAndPayloadAreCanonical ==
    [][/\ \A q \in Range(sorted) : \A d \in 0..(Len(q.options) - 1) :
             ClickOption(q, d) => ClickRecordsCanonical(q, d)
       /\ \A f \in submits' \ submits :
             f.stage = "sent" => PayloadIsTheSelections(f)]_vars

\* C2 witness: the options of the single-select question are shown in
\* reversed order, the learner has picked the one shown first (original
\* index 1) and the payload in flight carries index 1 for it.
C2_Witness ==
    /\ QuizMounted /\ P.randomizeAnswers
    /\ optionOrders[2] = <<1, 0>>
    /\ 2 \in DOMAIN answers /\ answers[2] = 1
    /\ \E f \in submits :
          \E i \in 1..Len(f.answers) :
             /\ f.answers[i].questionId = 2
             /\ f.answers[i].selectedOptionIndex = 1

\* Every question of the session has a recorded selection.
AllAnswered ==
    \A q \in Range(sorted) :
        IF q.multiSelect
        THEN q.id \in DOMAIN multiAnswers /\ multiAnswers[q.id] # <<>>
        ELSE q.id \in DOMAIN answers

\* C8: a click on Submit with a question left unanswered sets the "answer
\* all questions" error, sends nothing, leaves selections, result and the
\* submitting flag as they were and the button enabled; a request is only
\* ever sent with every question answered.
C8_IncompleteSubmitStaysLocal ==
    [][/\ (handleSubmit /\ ~AllAnswered) =>
             /\ error' = ValidationMsg
             /\ submits' = submits
             /\ UNCHANGED <<answers, multiAnswers, result, submitting>>
             /\ SubmitEnabled'
       /\ (\E f \in submits' \ submits : f.stage = "sent") => AllAnswered]_vars

\* C8 witness: the single-select question is answered, the multi-select one
\* was selected and emptied again; the click on Submit was refused locally.
C8_Witness ==
    /\ QuizMounted
    /\ error = ValidationMsg
    /\ 2 \in DOMAIN answers
    /\ 1 \in DOMAIN multiAnswers /\ multiAnswers[1] = <<>>
    /\ submits = {} /\ ~submitting /\ result = <<>>
    /\ SubmitEnabled

\* The conditions of the two lockouts on an attempt history h.
LockedCondition(h) ==
    P.maxAttempts > 0 /\ Len(h) >= P.maxAttempts /\ ~(\E i \in 1..Len(h) : h[i])

PassedLockedCondition(h) ==
    P.passMarkPercentage > 0 /\ ~P.allowRetryAfterPass /\ (\E i \in 1..Len(h) : h[i])

\* C11: every completed fetch of the attempt history that meets neither the
\* Locked nor the PassedLocked condition leaves the player eligible to
\* submit.
C11_OtherwiseEligible ==
    [][\A data \in attemptsResp :
          (AttemptsLoaded(data) /\ ~LockedCondition(data)
                                /\ ~PassedLockedCondition(data))
          => canSubmit']_vars

\* The message holds the words "Maximum number of attempts" in a row.
HoldsCeilingWords(msg) ==
    \E i \in 1..Len(msg) :
        /\ i + 3 <= Len(msg)
        /\ msg[i] = "Maximum" /\ msg[i + 1] = "number"
        /\ msg[i + 2] = "of" /\ msg[i + 3] = "attempts"

\* A step in which handleSubmit catches the failure of its request.
SubmissionFails == \E f \in submits : SubmitRejected(f) \/ SubmitFailed(f)

\* C12: a failed submission whose message holds the attempt-ceiling phrase
\* locks the player as the locally computed lockout does (flag set, no
\* submit, no retry, options disabled, contact-administrator message); a
\* failure with any other message leaves both eligibility flags as they were.
C12_CeilingErrorLocks ==
    [][SubmissionFails =>
          IF HoldsCeilingWords(error')
          THEN /\ attemptsExhausted'
               /\ ~canSubmit' /\ ~SubmitOffered' /\ ~RetryOffered'
               /\ OptionsDisabled' /\ ExhaustedBanner'
          ELSE UNCHANGED <<attemptsExhausted, hasPreviouslyPassed>>]_vars

\* C12 witness: the backend refused a submission with the ceiling phrase
\* while the fetched history was still below the cap; the player is locked
\* by the error alone.
C12_Witness ==
    /\ QuizMounted
    /\ error = CeilingMsg
    /\ attemptsExhausted
    /\ ~LockedCondition(attempts)
    /\ result = <<>>

\* seq lists every element of 0..n-1 exactly once.
IsBijectionOnIndices(seq, n) ==
    /\ Len(seq) = n
    /\ \A v \in 0..(n - 1) : Cardinality({d \in 1..n : seq[d] = v}) = 1

\* seq lists every element of the sequence of distinct elements src exactly
\* once and nothing else.
IsRearrangement(seq, src) ==
    /\ Len(seq) = Len(src)
    /\ \A x \in Range(seq) : x \in Range(src)
    /\ \A x \in Range(src) : Cardinality({d \in 1..Len(seq) : seq[d] = x}) = 1

\* C13: whatever the random numbers drawn, the option order fisherYates
\* produces for a question of n options (n from 0 on) lists each index of
\* 0..n-1 exactly once, and the displayed questions are the given questions,
\* each exactly once.
C13_ShufflesArePermutations ==
    (props # <<>> /\ ~lpLoading) =>
        /\ IsRearrangement(sorted, P.questions)
        /\ P.randomizeAnswers =>
              \A q \in Range(P.questions) :
                  /\ q.id \in DOMAIN optionOrders
                  /\ IsBijectionOnIndices(optionOrders[q.id], Len(q.options))

\* C13 witness: three questions shown in an order that is not the sorted
\* one, one of them with its three options rotated, one without any option.
C13_Witness ==
    /\ props # <<>> /\ ~lpLoading
    /\ P.randomizeQuestions /\ P.randomizeAnswers
    /\ Len(sorted) = 3
    /\ sorted # SortByOrder(P.questions)
    /\ \E q \in Range(sorted) : optionOrders[q.id] = <<1, 2, 0>>
    /\ \E q \in Range(sorted) : optionOrders[q.id] = <<>>

\* The canonical index of the option at display position d (0-based) of q,
\* and the display positions at which the option of canonical index i is.
ToCanonical(q, d) == getDisplayOptions(q)[d + 1].originalIndex

DisplayPositionsOf(q, i) ==
    {d \in 0..(Len(getDisplayOptions(q)) - 1) : ToCanonical(q, d) = i}

\* C14: for every question of the rendered player, with or without
\* randomisation, getDisplayOptions lists as many entries as the question has
\* options, every canonical index i appears in exactly one of them and that
\* entry shows options[i]; a display position mapped to its canonical index
\* and back is the same position.
C14_DisplayMappingRoundTrips ==
    (props # <<>> /\ ~lpLoading) =>
        \A q \in Range(sorted) :
            /\ Len(getDisplayOptions(q)) = Len(q.options)
            /\ \A i \in 0..(Len(q.options) - 1) :
                  /\ Cardinality(DisplayPositionsOf(q, i)) = 1
                  /\ \A d \in DisplayPositionsOf(q, i) :
                        getDisplayOptions(q)[d + 1].text = q.options[i + 1]
            /\ \A d \in 0..(Len(q.options) - 1) :
                  DisplayPositionsOf(q, ToCanonical(q, d)) = {d}

\* C14 witness: a question whose three options are shown rotated, the one
\* of canonical index 2 first.
C14_Witness ==
    /\ props # <<>> /\ ~lpLoading
    /\ P.randomizeAnswers
    /\ \E q \in Range(sorted) :
          /\ optionOrders[q.id] = <<2, 0, 1>>
          /\ getDisplayOptions(q)[1].text = "c"
          /\ DisplayPositionsOf(q, 0) = {1}

\* C15: while a scored result is stored the quiz is read-only: the option
\* buttons are disabled and Submit is not offered, no step changes the
\* selections, replaces the result or sends a submission; the only way out
\* is Retry, which starts the next session.
C15_ResultMakesQuizReadOnly ==
    /\ []((QuizMounted /\ result # <<>>) => OptionsDisabled /\ ~SubmitEnabled)
    /\ [][(QuizMounted /\ result # <<>>) =>
            IF result' # <<>>
            THEN /\ result' = result
                 /\ UNCHANGED <<answers, multiAnswers>>
                 /\ NoNewSubmission
            ELSE /\ shuffleKey' = shuffleKey + 1
                 /\ answers' = <<>> /\ multiAnswers' = <<>>
                 /\ NoNewSubmission]_vars

\* C15 witness: the result of a submission with both questions answered (two
\* options ticked on the multi-select one) is on display, nothing in flight.
C15_Witness ==
    /\ QuizMounted
    /\ result # <<>>
    /\ 2 \in DOMAIN answers
    /\ 1 \in DOMAIN multiAnswers /\ Len(multiAnswers[1]) = 2
    /\ submits = {} /\ ~submitting
    /\ OptionsDisabled

\* A step that takes the result off the display: a click on "Retry Quiz".
RetryStep == QuizMounted /\ result # <<>> /\ result' = <<>>

\* C16: Retry empties the single-select and the multi-select selections,
\* the result and the error text, raises shuffleKey by exactly one and
\* recomputes the question order and every option order (each again a
\* permutation, the sorted and the canonical order without randomisation);
\* the attempt history, the fetched attempts and both eligibility flags are
\* left as they were.
C16_RetryStartsFreshSession ==
    [][RetryStep =>
          /\ answers' = <<>> /\ multiAnswers' = <<>>
          /\ error' = <<>>
          /\ shuffleKey' = shuffleKey + 1
          /\ IsRearrangement(sorted', P.questions)
          /\ ~P.randomizeQuestions => sorted' = SortByOrder(P.questions)
          /\ IF P.randomizeAnswers
             THEN \A q \in Range(P.questions) :
                     /\ q.id \in DOMAIN optionOrders'
                     /\ IsBijectionOnIndices(optionOrders'[q.id], Len(q.options))
             ELSE optionOrders' = <<>>
          /\ UNCHANGED <<history, attempts, attemptsExhausted,
                         hasPreviouslyPassed, props>>]_vars

\* C16 witness: the second session after a retry, nothing selected yet,
\* while the history fetched after the failed attempt shows an earlier pass.
C16_Witness ==
    /\ QuizMounted
    /\ shuffleKey = 1
    /\ answers = <<>> /\ multiAnswers = <<>> /\ result = <<>> /\ error = <<>>
    /\ hasPreviouslyPassed
    /\ Len(attempts) = 2
    /\ P.randomizeQuestions /\ sorted # SortByOrder(P.questions)

\* C17: whenever a scored result is on display, "Retry Quiz" is offered
\* exactly when the player is not locked by exhaustion and either the result
\* is a failed one or retries after a pass are enabled.
C17_RetryAvailability ==
    (QuizMounted /\ result # <<>>) =>
        (RetryOffered <=>
            (/\ attemptsExhausted = FALSE
             /\ (result[1].passed = FALSE \/ P.allowRetryAfterPass = TRUE)))

\* C17 witness: a passed result on display in a lesson that allows retries
\* after a pass; the retry button is there.
C17_Witness ==
    /\ QuizMounted
    /\ result # <<>> /\ result[1].passed
    /\ P.allowRetryAfterPass /\ P.passMarkPercentage > 0
    /\ ~attemptsExhausted
    /\ RetryOffered
    /\ shuffleKey = 0

\* C18: the question order and the option orders of a mounted player change
\* in no step but a retry: clicks on options, submissions sent, scored or
\* failed, deliveries of the attempt history and the re-renders they cause
\* (those of the lesson page after onPassed included) leave both as they
\* were, as long as shuffleKey is the same.
C18_PermutationsFixedWithinSession ==
    [][QuizMounted =>
          /\ (sorted' # sorted \/ optionOrders' # optionOrders) => RetryStep
          /\ shuffleKey' = shuffleKey => UNCHANGED <<sorted, optionOrders>>
          /\ RetryStep => shuffleKey' = shuffleKey + 1]_vars

\* C18 witness: still the first session, with shuffled questions and the
\* options of question 2 reversed, after a selection, a failed submission
\* and the delivery of the attempt history.
C18_Witness ==
    /\ QuizMounted
    /\ shuffleKey = 0
    /\ P.randomizeQuestions /\ sorted # SortByOrder(P.questions)
    /\ P.randomizeAnswers /\ optionOrders[2] = <<1, 0>>
    /\ 2 \in DOMAIN answers
    /\ error = NetworkMsg
    /\ attempts # <<>>

\* C19: without randomizeQuestions the questions are displayed in ascending
\* order of their order field, whatever randomizeAnswers is; without
\* randomizeAnswers every question shows its options in canonical order
\* (display index = canonical index), whatever randomizeQuestions is.
C19_FlagsAreIndependent ==
    (props # <<>> /\ ~lpLoading) =>
        /\ ~P.randomizeQuestions =>
              /\ IsRearrangement(sorted, P.questions)
              /\ \A i \in 1..Len(sorted) : \A j \in 1..Len(sorted) :
                    i < j => sorted[i].order <= sorted[j].order
        /\ ~P.randomizeAnswers =>
              \A q \in Range(sorted) :
                  /\ Len(getDisplayOptions(q)) = Len(q.options)
                  /\ \A d \in 0..(Len(q.options) - 1) :
                        /\ getDisplayOptions(q)[d + 1].originalIndex = d
                        /\ getDisplayOptions(q)[d + 1].text = q.options[d + 1]

\* C19 witness: three questions shuffled while their options, three of
\* them on the question shown first, stay in canonical order.
C19_Witness ==
    /\ props # <<>> /\ ~lpLoading
    /\ P.randomizeQuestions /\ ~P.randomizeAnswers
    /\ Len(sorted) = 3
    /\ sorted[1].order > sorted[2].order
    /\ Len(sorted[1].options) = 3
    /\ getDisplayOptions(sorted[1])[3].originalIndex = 2

\* What the lesson page shows belongs to the lesson of the current route.
ShownStateIsOfCurrentLesson ==
    route = "lesson" =>
        /\ lesson # <<>> => lesson[1].id = lessonId
        /\ (pAll = "settled" /\ lesson # <<>>) =>
              /\ prevLesson = NavOf(CourseResponse, lessonId).prev
              /\ nextLesson = NavOf(CourseResponse, lessonId).next
        /\ (pAll # "settled" \/ lesson = <<>>) =>
              prevLesson = 0 /\ nextLesson = 0 /\ ~nextLessonLocked
        /\ quizPassed => lessonId \in done
        /\ nextLessonLocked =>
              nextLesson \in LessonPageLocked(ProgressResponse)

\* A step in which a request issued for a lesson view left since settles.
StaleDelivery == \E o \in orphans : ~o.settled /\ o \notin orphans'

C21_NextControlFollowsLatestSnapshot ==
    (LessonShown /\ nextLesson # 0 /\ lpProgress # <<>>) =>
        LET loaded == nextLesson \in LessonPageLocked(lpProgress[1])
            fresh  == nextLesson \in LessonPageLocked(ProgressResponse)
        IN  /\ (loaded /\ fresh) => NextControl # "link"
            /\ (~loaded /\ ~fresh) => NextControl = "link"

\* A step in which a submission leaves the requests in flight without a
\* result being stored: handleSubmit has caught its failure.
FailureCaught ==
    /\ \E f \in submits : submits' = submits \ {f}
    /\ result' = <<>>

\* What the failure handling leaves alone, and what it sets.
FailureHandlingIsLocal ==
    /\ result = <<>>
    /\ UNCHANGED <<answers, multiAnswers, result, sorted, optionOrders,
                   shuffleKey, attempts, hasPreviouslyPassed>>
    /\ error' # <<>>
    /\ ~submitting'

\* C22 as stated: a failed submission is surfaced as error text, its
\* handling changes neither selections, result nor permutations and resets
\* the submitting flag, and after any error but an attempt-ceiling error the
\* learner can submit again.
C22_FailedSubmitAllowsResubmission ==
    [][FailureCaught =>
          /\ FailureHandlingIsLocal
          /\ ~IncludesCeilingPhrase(error') => SubmitEnabled']_vars

\* C22, amended: the same, except that after an error other than an
\* attempt-ceiling error the eligibility is what it was before the failure
\* was handled: the learner can submit again exactly if no history fetch
\* completed in the meantime has locked the quiz.
C22_FailedSubmitLeavesSession ==
    [][FailureCaught =>
          /\ FailureHandlingIsLocal
          /\ ~IncludesCeilingPhrase(error') =>
                /\ UNCHANGED attemptsExhausted
                /\ SubmitEnabled' <=> canSubmit]_vars

\* C22 witness: a submission of the answered quiz was lost on the network;
\* the error is shown, the selection is still there, no result is stored
\* and Submit is enabled again.
C22_Witness ==
    /\ QuizMounted
    /\ error = NetworkMsg
    /\ answers # <<>>
    /\ result = <<>>
    /\ ~submitting /\ submits = {}
    /\ SubmitEnabled

\* The player as its first render leaves it, the history fetch of the mount
\* effect being the only request out.
InitialFetchOutstanding ==
    /\ QuizMounted
    /\ attemptsReq + Cardinality(attemptsResp) = 1
    /\ shuffleKey = 0 /\ submits = {} /\ ~submitting
    /\ answers = <<>> /\ multiAnswers = <<>> /\ result = <<>> /\ error = <<>>
    /\ attempts = <<>> /\ ~attemptsExhausted /\ ~hasPreviouslyPassed

\* C23: a failed attempt-history fetch changes no state of the player, and
\* after the failure of the initial fetch the tracker is where an empty
\* history puts it: no attempt used, neither Locked nor PassedLocked, no
\* error shown, Submit enabled.
C23_FailedHistoryFetchNeverBlocks ==
    [][AttemptsFailed =>
          /\ UNCHANGED <<attempts, attemptsExhausted, hasPreviouslyPassed,
                         error, result, submitting, answers, multiAnswers,
                         sorted, optionOrders, shuffleKey, submits>>
          /\ InitialFetchOutstanding =>
                /\ attemptsReq' = 0 /\ attemptsResp' = {}
                /\ attemptsUsed' = 0
                /\ ~attemptsExhausted' /\ ~hasPreviouslyPassed'
                /\ ~ExhaustedBanner' /\ ~PassedBanner'
                /\ error' = <<>>
                /\ SubmitEnabled']_vars

\* C23 witness: the backend holds a history that would lock the quiz, the
\* initial fetch has failed, and the player offers the quiz as to a learner
\* without attempts.
C23_Witness ==
    /\ QuizMounted /\ LoadAttemptsSends
    /\ LockedCondition(history) \/ PassedLockedCondition(history)
    /\ attemptsReq = 0 /\ attemptsResp = {}
    /\ shuffleKey = 0 /\ submits = {} /\ result = <<>> /\ error = <<>>
    /\ attemptsUsed = 0
    /\ SubmitEnabled

\* The lesson on display is a quiz with a pass mark.
ShowsGatingQuiz ==
    /\ LessonShown
    /\ lesson[1].type = "quiz" /\ lesson[1].passMarkPercentage > 0

\* The progress snapshot the page loaded marks the lesson as completed.
LoadedAsCompleted ==
    lpProgress # <<>> /\ MarksCurrentCompleted(lpProgress[1], lessonId)

\* A submission response with passed = true has arrived (the page mounts the
\* player without allowRetryAfterPass, so a passed result stays on display).
PassArrived == result # <<>> /\ result[1].passed

RECURSIVE Factorial(_)
Factorial(n) == IF n <= 1 THEN 1 ELSE n * Factorial(n - 1)

\* Those of the sequences of choices chs that make the shuffle produce the
\* ordering o of n indices, and those that make the question shuffle produce
\* the list o.
ChoicesProducing(chs, n, o) == {ch \in chs : fisherYates(n, ch) = o}

QuestionChoicesProducing(chs, qs, o) ==
    {ch \in chs : SortedOf(qs, TRUE, ch) = o}

\* C25: the shuffle is unbiased. It runs from the last index down to index
\* 1 with j chosen in 0..i, which makes n! sequences of choices for n
\* elements; every ordering it puts on display, of the questions and of the
\* options of each question, is an ordering of all the elements and is
\* produced by exactly one of these sequences. As every sequence of choices
\* can be drawn, the n! sequences map one-to-one onto the n! orderings.
C25_ShuffleIsUnbiased ==
    (props # <<>> /\ ~lpLoading) =>
        /\ LET chs == QuestionChoices(P.questions)
           IN  /\ Cardinality(chs) = Factorial(Len(P.questions))
               /\ P.randomizeQuestions =>
                     /\ IsRearrangement(sorted, P.questions)
                     /\ Cardinality(QuestionChoicesProducing(
                                       chs, P.questions, sorted)) = 1
        /\ \A q \in Range(sorted) :
              LET n == Len(q.options)
                  chs == Choices(n)
              IN  /\ Cardinality(chs) = Factorial(n)
                  /\ P.randomizeAnswers =>
                        /\ IsBijectionOnIndices(optionOrders[q.id], n)
                        /\ Cardinality(ChoicesProducing(
                                          chs, n, optionOrders[q.id])) = 1

\* C25 witness: three questions shown in reverse of their sorted order, one
\* of them with its three options reversed.
C25_Witness ==
    /\ props # <<>> /\ ~lpLoading
    /\ P.randomizeQuestions /\ P.randomizeAnswers
    /\ Len(sorted) = 3
    /\ \A k \in 1..3 : sorted[k] = SortByOrder(P.questions)[4 - k]
    /\ \E q \in Range(sorted) : optionOrders[q.id] = <<2, 1, 0>>

\* The history fetch of the mount effect is still outstanding: nothing has
\* been scored or retried in this session, so the request on its way is the
\* one issued on entering the lesson.
EntryFetchOutstanding ==
    /\ LoadAttemptsSends
    /\ shuffleKey = 0 /\ result = <<>>
    /\ attemptsReq + Cardinality(attemptsResp) > 0

\* A step in which handleSubmit sends a submission request.
SubmissionSent == ~submitting /\ submitting'

\* C26: for a quiz with a pass mark or an attempt cap, no submission request
\* is sent while the attempt-history fetch issued on entering the lesson is
\* outstanding.
C26_NoSubmissionBeforeHistoryResolved ==
    [][SubmissionSent => ~EntryFetchOutstanding]_vars

\* A step that puts a new submission request on the wire.
RequestGoesOut == \E f \in submits' \ submits : f.stage = "sent"

\* C27: at most one submission request of a quiz session is in flight: the
\* submitting flag is set exactly while a request is outstanding, Submit is
\* disabled meanwhile, and a request goes out only when none is outstanding.
C27_OneSubmissionInFlight ==
    /\ [](QuizMounted =>
            /\ Cardinality(submits) <= 1
            /\ submitting <=> submits # {}
            /\ submitting => ~SubmitEnabled)
    /\ [][RequestGoesOut => submits = {} /\ ~submitting]_vars

\* C27 witness: a submission of the fully answered quiz is outstanding; the
\* Submit button is still rendered, but disabled.
C27_Witness ==
    /\ QuizMounted
    /\ submitting
    /\ Cardinality(submits) = 1
    /\ ~Incomplete
    /\ SubmitOffered /\ ~SubmitEnabled

\* A step in which the response to the submission f is stored as the result.
ResultStored(f) ==
    /\ f \in submits /\ f.stage = "response"
    /\ f \notin submits'
    /\ result' = <<f.data>>

\* C28: when a scored result is stored, the selections the session holds
\* (and shows next to the result's marking) are the selections of the
\* payload that produced it, whatever the learner clicked while the
\* submission was in flight.
C28_ResultShownWithItsSelections ==
    [][\A f \in submits :
          ResultStored(f) =>
             /\ PayloadIsTheSelections(f)
             /\ UNCHANGED <<answers, multiAnswers>>]_vars

\* C29: within one mounted quiz session Locked is absorbing: no step, be it
\* a retry, a fetched history of any content, a failed fetch or a response,
\* takes attemptsExhausted from true back to false.
C29_LockedIsAbsorbing ==
    [][(QuizMounted /\ attemptsExhausted) => (QuizMounted' /\ attemptsExhausted')]_vars

\* C29 witness: the player was locked by a scored response at the cap; an
\* administrator has reset the attempts since, the backend's history and the
\* one the player holds are empty, no request is outstanding, and the player
\* is still locked.
C29_Witness ==
    /\ QuizMounted
    /\ attemptsExhausted
    /\ error = <<>>
    /\ result # <<>> /\ ~result[1].passed
    /\ history = <<>> /\ attempts = <<>>
    /\ attemptsReq = 0 /\ attemptsResp = {} /\ submits = {}

\* Every progress request of the sidebar has been answered and every answer
\* has been delivered.
SidebarQuiet == sbInFlight = 0 /\ sbReplies = {}

\* C30: after a passing submission, once the sidebar's fetches have all
\* come back, the sidebar shows the snapshot answered to the fetch issued
\* last, the one sent on the refreshKey change of the pass: a snapshot in
\* which the passed lesson is completed, with the locked set of the
\* backend's current progress.
C30_SidebarShowsLatestSnapshot ==
    (QuizMounted /\ PassArrived /\ SidebarQuiet) =>
        /\ progress # <<>>
        /\ MarksCurrentCompleted(progress[1], lessonId)
        /\ lockedLessons = SidebarLocked(ProgressResponse)

====
